---------------------------- MODULE Spec2Model ----------------------------
(***************************************************************************)
(* Model of the competitor-analysis application (pem08-master):            *)
(*   - the Response Extractor  (backend GeminiService._parse_json_response *)
(*     and desktop GeminiClient._parse_json),                              *)
(*   - the Result Normalizer   (the data.get blocks of the analyze calls), *)
(*   - the Page Snapshotter    (WebParser.parse_url),                      *)
(*   - the desktop main window (MainWindow / WorkerThread): requests,      *)
(*     completion signals and the history log.                             *)
(*                                                                         *)
(* A text is a sequence of one-character strings.  A JSON value is a       *)
(* record of one fixed shape (JVal) so that any two values can be compared.*)
(***************************************************************************)
EXTENDS Integers, Sequences, FiniteSets, TLC

(***************************************************************************)
(* Texts                                                                   *)
(***************************************************************************)

\* Characters the re module counts as white space (ASCII part).
RegexSpace == {" ", "\t", "\n", "\r", "\f"}

Digits == {"0", "1", "2", "3", "4", "5", "6", "7", "8", "9"}

DigitVal(c) ==
  CASE c = "0" -> 0 [] c = "1" -> 1 [] c = "2" -> 2 [] c = "3" -> 3
    [] c = "4" -> 4 [] c = "5" -> 5 [] c = "6" -> 6 [] c = "7" -> 7
    [] c = "8" -> 8 [] c = "9" -> 9

\* s[i:] starts with p  (i is a 1-based index, possibly Len(s)+1)
StartsWithAt(s, i, p) ==
  /\ i + Len(p) - 1 <= Len(s)
  /\ \A k \in 1..Len(p) : s[i + k - 1] = p[k]

\* s[a..b] (1-based, inclusive); empty when b < a
Slice(s, a, b) == IF b < a THEN <<>> ELSE SubSeq(s, a, b)

\* The grave accent (U+0060), which the module's lexer cannot hold in a string.
Backtick == "BQ"

Fence == <<Backtick, Backtick, Backtick>>
JsonTag == <<"j", "s", "o", "n">>

\* index just after the longest run of characters of set W starting at i
RECURSIVE SkipWhile(_, _, _)
SkipWhile(s, i, W) ==
  IF i <= Len(s) /\ s[i] \in W THEN SkipWhile(s, i + 1, W) ELSE i

(***************************************************************************)
(* The fence pattern of both extractors: three backticks, an optional      *)
(* json tag, greedy white space, a lazy group of any characters, greedy    *)
(* white space, three backticks.  The group is what the code keeps.        *)
(***************************************************************************)

\* The tail of the pattern (white space, then the closing fence) matches at e.
FenceTailAt(s, e) == StartsWithAt(s, SkipWhile(s, e, RegexSpace), Fence)

\* The lazy group started at p ends at the least e >= p from
\* which the tail matches; 0 when there is none.
LazyGroupEnd(s, p) ==
  LET ends == {e \in p..(Len(s) + 1) : FenceTailAt(s, e)}
  IN IF ends = {} THEN 0 ELSE CHOOSE e \in ends : \A f \in ends : e <= f

\* Start positions of the group the backtracking matcher tries, in its
\* order of preference, for a match that begins with the fence at i:
\* the json tag taken first, then skipped; the white space longest first.
GroupStarts(s, i) ==
  LET q0 == i + 3
      q1 == q0 + 4
      Desc(q) == LET m == SkipWhile(s, q, RegexSpace)
                 IN [k \in 1..(m - q + 1) |-> m - k + 1]
  IN IF StartsWithAt(s, q0, JsonTag) THEN Desc(q1) \o Desc(q0) ELSE Desc(q0)

\* The match that begins at i, if any: [found, from, to] with the group
\* being s[from..to-1].
FirstGroup(s, ps, ends) ==
  LET good == {k \in 1..Len(ps) : ends[k] # 0}
  IN IF good = {} THEN [found |-> FALSE, from |-> 0, to |-> 0]
     ELSE LET k == CHOOSE x \in good : \A y \in good : x <= y
          IN [found |-> TRUE, from |-> ps[k], to |-> ends[k]]

GroupEnds(s, ps) == [k \in 1..Len(ps) |-> LazyGroupEnd(s, ps[k])]

FenceMatchAt(s, i) ==
  IF ~StartsWithAt(s, i, Fence) THEN [found |-> FALSE, from |-> 0, to |-> 0]
  ELSE FirstGroup(s, GroupStarts(s, i), GroupEnds(s, GroupStarts(s, i)))

\* re.search: the leftmost position with a match.
LeftmostMatch(s, matches) ==
  LET hits == {i \in 1..Len(s) : matches[i].found}
  IN IF hits = {} THEN [found |-> FALSE, group |-> <<>>]
     ELSE LET i == CHOOSE x \in hits : \A y \in hits : x <= y
          IN [found |-> TRUE, group |-> Slice(s, matches[i].from, matches[i].to - 1)]

FenceSearch(s) == LeftmostMatch(s, [i \in 1..Len(s) |-> FenceMatchAt(s, i)])

(***************************************************************************)
(* The brace pattern: from the leftmost opening brace that has a closing   *)
(* brace after it, greedily to the last closing brace.                     *)
(***************************************************************************)
\* A brace pattern with a lazy body, which stops at the first closing brace.
BraceSearchLazy(s) ==
  LET opens == {i \in 1..Len(s) : s[i] = "{" /\ \E j \in (i + 1)..Len(s) : s[j] = "}"}
  IN IF opens = {} THEN [found |-> FALSE, group |-> <<>>]
     ELSE LET a == CHOOSE x \in opens : \A y \in opens : x <= y
              closes == {j \in (a + 1)..Len(s) : s[j] = "}"}
              b == CHOOSE x \in closes : \A y \in closes : x <= y
          IN [found |-> TRUE, group |-> Slice(s, a, b)]

BraceSearch(s) ==
  LET opens == {i \in 1..Len(s) : s[i] = "{" /\ \E j \in (i + 1)..Len(s) : s[j] = "}"}
  IN IF opens = {} THEN [found |-> FALSE, group |-> <<>>]
     ELSE LET a == CHOOSE x \in opens : \A y \in opens : x <= y
              closes == {j \in (a + 1)..Len(s) : s[j] = "}"}
              b == CHOOSE x \in closes : \A y \in closes : x >= y
          IN [found |-> TRUE, group |-> Slice(s, a, b)]

(***************************************************************************)
(* JSON values (what json.loads returns)                                   *)
(*   t: "null" | "bool" | "int" | "float" | "str" | "list" | "dict"        *)
(*   n: the integer (int), 1/0 (bool);  s: the characters (str) or the     *)
(*   literal (float);  items: the elements (list);  members: the set of    *)
(*   <<key, value>> pairs, one per key (dict).                             *)
(***************************************************************************)
JVal(t, n, s, items, members) ==
  [t |-> t, n |-> n, s |-> s, items |-> items, members |-> members]

JNull == JVal("null", 0, <<>>, <<>>, {})
JBool(b) == JVal("bool", IF b THEN 1 ELSE 0, <<>>, <<>>, {})
JInt(n) == JVal("int", n, <<>>, <<>>, {})
JFloat(lit) == JVal("float", 0, lit, <<>>, {})
JStr(s) == JVal("str", 0, s, <<>>, {})
JList(items) == JVal("list", 0, <<>>, items, {})
JDict(members) == JVal("dict", 0, <<>>, <<>>, members)

\* dict[key] = value (a later pair for the same key replaces the earlier)
DictPut(members, key, value) ==
  {m \in members : m[1] # key} \cup {<<key, value>>}

\* dict.get(key) or default: the default also replaces a null value
DictGetOr(members, key, default) ==
  IF \E m \in members : m[1] = key /\ m[2].t # "null"
  THEN (CHOOSE m \in members : m[1] = key)[2]
  ELSE default

\* dict.get(key, default)
DictGet(members, key, default) ==
  IF \E m \in members : m[1] = key
  THEN (CHOOSE m \in members : m[1] = key)[2]
  ELSE default

(***************************************************************************)
(* json.loads (CPython json.decoder / json.scanner), strict mode.          *)
(* A scan result is [ok, v, i]: the value and the index after it; ok is    *)
(* FALSE where the decoder raises JSONDecodeError.                         *)
(***************************************************************************)
ScanFail == [ok |-> FALSE, v |-> JNull, i |-> 0]
ScanOk(v, i) == [ok |-> TRUE, v |-> v, i |-> i]

\* s[i:i+1]: the character at i, or the empty string past the end
CharAt(s, i) == IF i >= 1 /\ i <= Len(s) THEN s[i] ELSE ""

\* json.decoder.WHITESPACE: space, tab, line feed, carriage return
SkipWs(s, i) == SkipWhile(s, i, {" ", "\t", "\n", "\r"})

\* json.decoder.BACKSLASH, for a key of it.  "BS" stands for the backspace
\* character (U+0008), which a string of the module cannot hold.
Unescape(esc) ==
  CASE esc = "\"" -> "\"" [] esc = "\\" -> "\\" [] esc = "/" -> "/"
    [] esc = "b" -> "BS" [] esc = "f" -> "\f" [] esc = "n" -> "\n"
    [] esc = "r" -> "\r" [] esc = "t" -> "\t"

\* chr(int(esc, 16)) for the code points the model's alphabet names; every
\* other code point is one character outside the alphabet.
UnicodeChar(h) ==
  CASE h = <<"0", "0", "7", "b">> -> "{"
    [] h = <<"0", "0", "7", "d">> -> "}"
    [] h = <<"0", "0", "6", "0">> -> Backtick
    [] h = <<"0", "0", "2", "2">> -> "\""
    [] OTHER -> "U+"

\* py_scanstring(s, i, strict=True): i is the index after the opening quote
RECURSIVE ScanString(_, _, _)
ScanString(s, i, acc) ==
  IF i > Len(s) THEN ScanFail
  ELSE IF s[i] = "\"" THEN ScanOk(JStr(acc), i + 1)
  ELSE IF s[i] \in {"\t", "\n", "\r", "\f"} THEN ScanFail
  ELSE IF s[i] # "\\" THEN ScanString(s, i + 1, Append(acc, s[i]))
  ELSE IF i + 1 > Len(s) THEN ScanFail
  ELSE IF s[i + 1] = "u"
       THEN IF i + 5 <= Len(s) /\ (\A k \in 2..5 :
                    s[i + k] \in Digits \cup {"a", "b", "c", "d", "e", "f",
                                              "A", "B", "C", "D", "E", "F"})
            THEN ScanString(s, i + 6, Append(acc, UnicodeChar(SubSeq(s, i + 2, i + 5))))
            ELSE ScanFail
  ELSE IF s[i + 1] \in {"\"", "\\", "/", "b", "f", "n", "r", "t"}
       THEN ScanString(s, i + 2, Append(acc, Unescape(s[i + 1])))
  ELSE ScanFail

\* int() of the decimal digits s[a..b]
RECURSIVE IntOf(_, _, _)
IntOf(s, a, b) == IF b < a THEN 0 ELSE 10 * IntOf(s, a, b - 1) + DigitVal(s[b])

Lit ==
  [null |-> <<"n", "u", "l", "l">>,
   true |-> <<"t", "r", "u", "e">>,
   false |-> <<"f", "a", "l", "s", "e">>,
   NaN |-> <<"N", "a", "N">>,
   Infinity |-> <<"I", "n", "f", "i", "n", "i", "t", "y">>,
   NegInfinity |-> <<"-", "I", "n", "f", "i", "n", "i", "t", "y">>]

\* json.scanner: NUMBER_RE (integer, optional fraction, optional exponent),
\* then the NaN / Infinity / -Infinity constants.
ScanNumber(s, i) ==
  LET j0 == IF CharAt(s, i) = "-" THEN i + 1 ELSE i
      hasInt == CharAt(s, j0) \in Digits
      j1 == IF CharAt(s, j0) = "0" THEN j0 + 1 ELSE SkipWhile(s, j0, Digits)
      fracEnd == IF CharAt(s, j1) = "." /\ CharAt(s, j1 + 1) \in Digits
                 THEN SkipWhile(s, j1 + 1, Digits) ELSE j1
      expDigits == IF CharAt(s, fracEnd) \in {"e", "E"}
                   THEN (IF CharAt(s, fracEnd + 1) \in {"+", "-"}
                         THEN fracEnd + 2 ELSE fracEnd + 1)
                   ELSE 0
      expEnd == IF expDigits # 0 /\ CharAt(s, expDigits) \in Digits
                THEN SkipWhile(s, expDigits, Digits) ELSE fracEnd
  IN IF hasInt
     THEN IF expEnd = j1
          THEN ScanOk(JInt((IF j0 = i THEN 1 ELSE -1) * IntOf(s, j0, j1 - 1)), j1)
          ELSE ScanOk(JFloat(Slice(s, i, expEnd - 1)), expEnd)
     ELSE IF StartsWithAt(s, i, Lit.NaN) THEN ScanOk(JFloat(Lit.NaN), i + 3)
     ELSE IF StartsWithAt(s, i, Lit.Infinity) THEN ScanOk(JFloat(Lit.Infinity), i + 8)
     ELSE IF StartsWithAt(s, i, Lit.NegInfinity) THEN ScanOk(JFloat(Lit.NegInfinity), i + 9)
     ELSE ScanFail

RECURSIVE ScanOnce(_, _)
RECURSIVE ObjectLoop(_, _, _)
RECURSIVE ArrayLoop(_, _, _)

\* json.decoder.JSONObject: i is the index after the opening brace
JSONObject(s, i) ==
  LET j == SkipWs(s, i)
  IN IF CharAt(s, j) = "}" THEN ScanOk(JDict({}), j + 1)
     ELSE IF CharAt(s, j) # "\"" THEN ScanFail
     ELSE ObjectLoop(s, j + 1, {})

\* the while-loop of JSONObject: i is the index after the key's opening
\* quote.  One turn of the loop scans the key (ObjectLoop), then the colon
\* and the value (ObjectValue), then stores the pair and looks for the
\* closing brace or the comma (ObjectNext).
RECURSIVE ObjectValue(_, _, _)
RECURSIVE ObjectNext(_, _, _, _)

ObjectLoop(s, i, members) == ObjectValue(s, members, ScanString(s, i, <<>>))

ObjectValue(s, members, key) ==
  IF ~key.ok THEN ScanFail
  ELSE IF CharAt(s, SkipWs(s, key.i)) # ":" THEN ScanFail
  ELSE ObjectNext(s, members, key.v.s, ScanOnce(s, SkipWs(s, SkipWs(s, key.i) + 1)))

ObjectNext(s, members, key, val) ==
  IF ~val.ok THEN ScanFail
  ELSE LET e == SkipWs(s, val.i)
       IN IF CharAt(s, e) = "}"
          THEN ScanOk(JDict(DictPut(members, key, val.v)), e + 1)
          ELSE IF CharAt(s, e) # "," THEN ScanFail
          ELSE IF CharAt(s, SkipWs(s, e + 1)) # "\"" THEN ScanFail
          ELSE ObjectLoop(s, SkipWs(s, e + 1) + 1, DictPut(members, key, val.v))

\* json.decoder.JSONArray: i is the index after the opening bracket
JSONArray(s, i) ==
  LET j == SkipWs(s, i)
  IN IF CharAt(s, j) = "]" THEN ScanOk(JList(<<>>), j + 1)
     ELSE ArrayLoop(s, j, <<>>)

\* the while-loop of JSONArray: one turn scans a value (ArrayLoop), then
\* appends it and looks for the closing bracket or the comma (ArrayNext).
RECURSIVE ArrayNext(_, _, _)

ArrayLoop(s, i, items) == ArrayNext(s, items, ScanOnce(s, i))

ArrayNext(s, items, val) ==
  IF ~val.ok THEN ScanFail
  ELSE LET e == SkipWs(s, val.i)
       IN IF CharAt(s, e) = "]" THEN ScanOk(JList(Append(items, val.v)), e + 1)
          ELSE IF CharAt(s, e) # "," THEN ScanFail
          ELSE ArrayLoop(s, SkipWs(s, e + 1), Append(items, val.v))

\* json.scanner.py_make_scanner._scan_once
ScanOnce(s, i) ==
  IF i > Len(s) THEN ScanFail
  ELSE IF s[i] = "\"" THEN ScanString(s, i + 1, <<>>)
  ELSE IF s[i] = "{" THEN JSONObject(s, i + 1)
  ELSE IF s[i] = "[" THEN JSONArray(s, i + 1)
  ELSE IF StartsWithAt(s, i, Lit.null) THEN ScanOk(JNull, i + 4)
  ELSE IF StartsWithAt(s, i, Lit.true) THEN ScanOk(JBool(TRUE), i + 4)
  ELSE IF StartsWithAt(s, i, Lit.false) THEN ScanOk(JBool(FALSE), i + 5)
  ELSE ScanNumber(s, i)

\* json.loads(s) -> JSONDecoder.decode: one value between white space, and
\* nothing after it ("Extra data" otherwise).
DecodeEnd(s, r) == IF r.ok /\ SkipWs(s, r.i) = Len(s) + 1 THEN r ELSE ScanFail

JsonLoads(s) == DecodeEnd(s, ScanOnce(s, SkipWs(s, 1)))

(***************************************************************************)
(* The Response Extractor.  An outcome is [raised, exc, value].            *)
(***************************************************************************)
Returned(v) == [raised |-> FALSE, exc |-> "", value |-> v]
Raised(e) == [raised |-> TRUE, exc |-> e, value |-> JNull]

\* if match: content = match.group(1)   (content unchanged otherwise)
GroupOr(match, content) == IF match.found THEN match.group ELSE content

\* The two substitutions both extractors apply before json.loads.
InFence(content) == GroupOr(FenceSearch(content), content)
InBraces(content) == GroupOr(BraceSearch(content), content)

\* backend GeminiService._parse_json_response: the try block around
\* json.loads, the debug line that takes len(result), and the handler of
\* JSONDecodeError.
GeminiService_loaded(result) ==
  IF ~result.ok THEN Returned(JDict({}))
  ELSE IF result.v.t \notin {"dict", "list", "str"} THEN Raised("TypeError")
  ELSE Returned(result.v)

GeminiService_parse_json_response(content) ==
  GeminiService_loaded(JsonLoads(InBraces(InFence(content))))

\* An except clause that returns None instead of the empty dictionary.
LoadedOrNone(result) ==
  IF ~result.ok THEN Returned(JNull) ELSE Returned(result.v)

\* desktop GeminiClient._parse_json: the try block and the bare except.
GeminiClient_loaded(result) ==
  IF ~result.ok THEN Returned(JDict({})) ELSE Returned(result.v)

GeminiClient_parse_json(content) ==
  GeminiClient_loaded(JsonLoads(InBraces(InFence(content))))

(***************************************************************************)
(* Schema keys                                                             *)
(***************************************************************************)
K ==
  [strengths |->
     <<"s", "t", "r", "e", "n", "g", "t", "h", "s">>,
   weaknesses |->
     <<"w", "e", "a", "k", "n", "e", "s", "s", "e", "s">>,
   unique_offers |->
     <<"u", "n", "i", "q", "u", "e", "_", "o", "f", "f", "e", "r", "s">>,
   target_audience |->
     <<"t", "a", "r", "g", "e", "t", "_", "a", "u", "d", "i", "e", "n", "c", "e">>,
   marketing_insights |->
     <<"m", "a", "r", "k", "e", "t", "i", "n", "g", "_", "i", "n", "s", "i", "g", "h", "t", "s">>,
   recommendations |->
     <<"r", "e", "c", "o", "m", "m", "e", "n", "d", "a", "t", "i", "o", "n", "s">>,
   summary |->
     <<"s", "u", "m", "m", "a", "r", "y">>,
   description |->
     <<"d", "e", "s", "c", "r", "i", "p", "t", "i", "o", "n">>,
   visual_style_score |->
     <<"v", "i", "s", "u", "a", "l", "_", "s", "t", "y", "l", "e", "_", "s", "c", "o", "r", "e">>,
   visual_style_analysis |->
     <<"v", "i", "s", "u", "a", "l", "_", "s", "t", "y", "l", "e", "_", "a", "n", "a", "l", "y", "s", "i", "s">>,
   color_palette |->
     <<"c", "o", "l", "o", "r", "_", "p", "a", "l", "e", "t", "t", "e">>,
   emotional_tone |->
     <<"e", "m", "o", "t", "i", "o", "n", "a", "l", "_", "t", "o", "n", "e">>]

EmptyList == JList(<<>>)
EmptyString == JStr(<<>>)

(***************************************************************************)
(* The model endpoint's answer to one generate_content call: the reply     *)
(* text, or an exception of the provider with its message.                 *)
(***************************************************************************)
OkResponse(text) == [raised |-> FALSE, text |-> text, error |-> ""]
ProviderError == [raised |-> TRUE, text |-> <<>>, error |-> "503 UNAVAILABLE"]

\* A call site wrapped in a loop that calls the endpoint a second time when
\* the first call raises.
GenerateContentRetried(reached, resp) ==
  IF ~reached THEN 0 ELSE IF resp.raised THEN 2 ELSE 1

\* How often one analysis call invokes generate_content: the call site
\* stands once in the try block, outside any loop, and is passed when no
\* earlier statement of the block has raised; whatever the answer, the
\* function then leaves through the return or through the except clause.
GenerateContentCalls(reached, resp) == IF reached THEN 1 ELSE 0

(***************************************************************************)
(* The result dictionaries of the desktop client:                          *)
(* success/analysis, or success/error.  An absent analysis is the empty    *)
(* set of pairs.                                                           *)
(***************************************************************************)
Success(analysis) == [success |-> TRUE, analysis |-> analysis, error |-> ""]
Failure(message) == [success |-> FALSE, analysis |-> {}, error |-> message]

\* str(e) of the AttributeError that data.get raises when data is no dict
NoGetAttribute(v) ==
  CASE v.t = "list" -> "'list' object has no attribute 'get'"
    [] v.t = "str" -> "'str' object has no attribute 'get'"
    [] v.t = "int" -> "'int' object has no attribute 'get'"
    [] v.t = "float" -> "'float' object has no attribute 'get'"
    [] v.t = "bool" -> "'bool' object has no attribute 'get'"
    [] v.t = "null" -> "'NoneType' object has no attribute 'get'"

\* desktop GeminiClient.analyze_text: the return statement, given data
TextAnalysis(data) ==
  IF data.t # "dict" THEN Failure(NoGetAttribute(data))
  ELSE Success({
            <<K.strengths, DictGet(data.members, K.strengths, EmptyList)>>,
            <<K.weaknesses, DictGet(data.members, K.weaknesses, EmptyList)>>,
            <<K.unique_offers, DictGet(data.members, K.unique_offers, EmptyList)>>,
            <<K.target_audience, DictGet(data.members, K.target_audience, EmptyList)>>,
            <<K.marketing_insights, DictGet(data.members, K.marketing_insights, EmptyList)>>,
            <<K.recommendations, DictGet(data.members, K.recommendations, EmptyList)>>,
            <<K.summary, DictGet(data.members, K.summary, EmptyString)>> })

\* desktop GeminiClient.analyze_text, given the endpoint's answer
GeminiClient_analyze_text(resp) ==
  IF resp.raised THEN Failure(resp.error)
  ELSE TextAnalysis(GeminiClient_parse_json(resp.text).value)

\* A return statement that clamps the score to the range 0..10.
ImageAnalysisClamped(data) ==
  IF data.t # "dict" THEN Failure(NoGetAttribute(data))
  ELSE Success({
            <<K.description, DictGet(data.members, K.description, EmptyString)>>,
            <<K.marketing_insights, DictGet(data.members, K.marketing_insights, EmptyList)>>,
            <<K.visual_style_score,
              IF \E m \in data.members :
                   m[1] = K.visual_style_score /\ m[2].t = "int" /\ m[2].n > 10
              THEN JInt(10)
              ELSE DictGet(data.members, K.visual_style_score, JInt(5))>>,
            <<K.visual_style_analysis, DictGet(data.members, K.visual_style_analysis, EmptyString)>>,
            <<K.color_palette, DictGet(data.members, K.color_palette, EmptyList)>>,
            <<K.target_audience, DictGet(data.members, K.target_audience, EmptyList)>>,
            <<K.emotional_tone, DictGet(data.members, K.emotional_tone, EmptyString)>>,
            <<K.recommendations, DictGet(data.members, K.recommendations, EmptyList)>> })

\* desktop GeminiClient.analyze_image: the return statement, given data
ImageAnalysis(data) ==
  IF data.t # "dict" THEN Failure(NoGetAttribute(data))
  ELSE Success({
            <<K.description, DictGet(data.members, K.description, EmptyString)>>,
            <<K.marketing_insights, DictGet(data.members, K.marketing_insights, EmptyList)>>,
            <<K.visual_style_score, DictGet(data.members, K.visual_style_score, JInt(5))>>,
            <<K.visual_style_analysis, DictGet(data.members, K.visual_style_analysis, EmptyString)>>,
            <<K.color_palette, DictGet(data.members, K.color_palette, EmptyList)>>,
            <<K.target_audience, DictGet(data.members, K.target_audience, EmptyList)>>,
            <<K.emotional_tone, DictGet(data.members, K.emotional_tone, EmptyString)>>,
            <<K.recommendations, DictGet(data.members, K.recommendations, EmptyList)>> })

\* desktop GeminiClient.analyze_image, given whether Image.open succeeds
\* and the endpoint's answer
GeminiClient_analyze_image(image_ok, resp) ==
  IF ~image_ok THEN Failure("cannot identify image file")
  ELSE IF resp.raised THEN Failure(resp.error)
  ELSE ImageAnalysis(GeminiClient_parse_json(resp.text).value)

\* desktop GeminiClient.analyze_parsed_content: the return statement
ParsedContentAnalysis(data) ==
  IF data.t # "dict" THEN Failure(NoGetAttribute(data))
  ELSE Success({
            <<K.strengths, DictGet(data.members, K.strengths, EmptyList)>>,
            <<K.weaknesses, DictGet(data.members, K.weaknesses, EmptyList)>>,
            <<K.unique_offers, DictGet(data.members, K.unique_offers, EmptyList)>>,
            <<K.target_audience, DictGet(data.members, K.target_audience, EmptyList)>>,
            <<K.marketing_insights, DictGet(data.members, K.marketing_insights, EmptyList)>>,
            <<K.visual_style_score, DictGet(data.members, K.visual_style_score, JInt(5))>>,
            <<K.visual_style_analysis, DictGet(data.members, K.visual_style_analysis, EmptyString)>>,
            <<K.recommendations, DictGet(data.members, K.recommendations, EmptyList)>> })

\* desktop GeminiClient.analyze_parsed_content, given whether Image.open of
\* the screenshot succeeds and the endpoint's answer
GeminiClient_analyze_parsed_content(image_ok, resp) ==
  IF ~image_ok THEN Failure("No such file or directory")
  ELSE IF resp.raised THEN Failure(resp.error)
  ELSE ParsedContentAnalysis(GeminiClient_parse_json(resp.text).value)

\* backend GeminiService.analyze_text: the keyword arguments handed to
\* CompetitorAnalysis, given the outcome of _parse_json_response
CompetitorAnalysisArgs(data) ==
  IF data.raised THEN Raised(data.exc)
  ELSE IF data.value.t # "dict" THEN Raised(NoGetAttribute(data.value))
  ELSE Returned(JDict({
            <<K.strengths, DictGet(data.value.members, K.strengths, EmptyList)>>,
            <<K.weaknesses, DictGet(data.value.members, K.weaknesses, EmptyList)>>,
            <<K.unique_offers, DictGet(data.value.members, K.unique_offers, EmptyList)>>,
            <<K.recommendations, DictGet(data.value.members, K.recommendations, EmptyList)>>,
            <<K.summary, DictGet(data.value.members, K.summary, EmptyString)>> }))

\* An except clause that logs the failure and answers with the all-default
\* analysis instead of re-raising.
AnalyzeTextSuppressed(resp) ==
  IF resp.raised THEN CompetitorAnalysisArgs(Returned(JDict({})))
  ELSE CompetitorAnalysisArgs(GeminiService_parse_json_response(resp.text))

\* backend GeminiService.analyze_text, given the endpoint's answer: the
\* keyword arguments, or the exception that the except clause logs and
\* re-raises.
GeminiService_analyze_text(resp) ==
  IF resp.raised THEN Raised(resp.error)
  ELSE CompetitorAnalysisArgs(GeminiService_parse_json_response(resp.text))

\* backend GeminiService.analyze_image: the keyword arguments handed to
\* ImageAnalysis, given the outcome of _parse_json_response
ImageAnalysisArgs(data) ==
  IF data.raised THEN Raised(data.exc)
  ELSE IF data.value.t # "dict" THEN Raised(NoGetAttribute(data.value))
  ELSE Returned(JDict({
            <<K.description, DictGet(data.value.members, K.description, EmptyString)>>,
            <<K.marketing_insights,
              DictGet(data.value.members, K.marketing_insights, EmptyList)>>,
            <<K.visual_style_score,
              DictGet(data.value.members, K.visual_style_score, JInt(5))>>,
            <<K.visual_style_analysis,
              DictGet(data.value.members, K.visual_style_analysis, EmptyString)>>,
            <<K.recommendations,
              DictGet(data.value.members, K.recommendations, EmptyList)>> }))

\* backend GeminiService.analyze_image, given the endpoint's answer (the
\* image has been decoded before the try block)
GeminiService_analyze_image(resp) ==
  IF resp.raised THEN Raised(resp.error)
  ELSE ImageAnalysisArgs(GeminiService_parse_json_response(resp.text))

(***************************************************************************)
(* Replies of the model the extractor is applied to.  A reply is built     *)
(* from a shape: prose before, a body that is either bare or inside a      *)
(* fenced block, prose after.                                              *)
(***************************************************************************)

ObjScenarioA ==
  [text |-> <<"{", "\"", "s", "t", "r", "e", "n", "g", "t", "h", "s", "\"", ":", " ", "[", "\"", "f", "a", "s", "t", "\"", "]", ",", " ", "\"", "s", "u", "m", "m", "a", "r", "y", "\"", ":", " ", "\"", "o", "k", "\"", "}">>,
   value |-> JDict({<<K.strengths, JList(<<JStr(<<"f", "a", "s", "t">>)>>)>>, <<K.summary, JStr(<<"o", "k">>)>>})]

ObjImage ==
  [text |-> <<"{", "\"", "v", "i", "s", "u", "a", "l", "_", "s", "t", "y", "l", "e", "_", "s", "c", "o", "r", "e", "\"", ":", "7", ",", "\"", "d", "e", "s", "c", "r", "i", "p", "t", "i", "o", "n", "\"", ":", "\"", "d", "\"", "}">>,
   value |-> JDict({<<K.visual_style_score, JInt(7)>>, <<K.description, JStr(<<"d">>)>>})]

\* Well-formed objects, each with the value it denotes.
WellFormedObjects ==
  {ObjScenarioA, ObjImage,
   \* the empty object
   [text |-> <<"{", "}">>,
    value |-> JDict({})],
   \* a list field given as null
   [text |-> <<"{", "\"", "s", "t", "r", "e", "n", "g", "t", "h", "s",
               "\"", ":", "n", "u", "l", "l", "}">>,
    value |-> JDict({<<K.strengths, JNull>>})],
   \* a list field given as a string, the summary as a number
   [text |-> <<"{", "\"", "s", "t", "r", "e", "n", "g", "t", "h", "s",
               "\"", ":", "\"", "f", "a", "s", "t", "\"", ",", "\"", "s",
               "u", "m", "m", "a", "r", "y", "\"", ":", "7", "}">>,
    value |-> JDict({<<K.strengths, JStr(<<"f", "a", "s", "t">>)>>,
               <<K.summary, JInt(7)>>})],
   \* a closing brace inside a string
   [text |-> <<"{", "\"", "s", "u", "m", "m", "a", "r", "y", "\"", ":",
               "\"", "}", "\"", "}">>,
    value |-> JDict({<<K.summary, JStr(<<"}">>)>>})],
   \* an opening brace inside a string
   [text |-> <<"{", "\"", "s", "u", "m", "m", "a", "r", "y", "\"", ":",
               "\"", "{", "\"", "}">>,
    value |-> JDict({<<K.summary, JStr(<<"{">>)>>})],
   \* three backticks inside a string
   [text |-> <<"{", "\"", "s", "u", "m", "m", "a", "r", "y", "\"", ":",
               "\"", Backtick, Backtick, Backtick, "\"", "}">>,
    value |-> JDict({<<K.summary, JStr(<<Backtick, Backtick,
               Backtick>>)>>})],
   \* an escaped quote inside a string
   [text |-> <<"{", "\"", "s", "u", "m", "m", "a", "r", "y", "\"", ":",
               "\"", "a", "\\", "\"", "b", "\"", "}">>,
    value |-> JDict({<<K.summary, JStr(<<"a", "\"", "b">>)>>})],
   \* a score outside 0..10
   [text |-> <<"{", "\"", "v", "i", "s", "u", "a", "l", "_", "s", "t", "y",
               "l", "e", "_", "s", "c", "o", "r", "e", "\"", ":", "1", "5",
               "}">>,
    value |-> JDict({<<K.visual_style_score, JInt(15)>>})]}

\* A reply cut off after a key, and prose.
TextTruncated == <<"{", "\"", "s", "u", "m", "m", "a", "r", "y", "\"", ":">>
TextSorry ==
  <<"S", "o", "r", "r", "y", ",", " ", "I", " ", "c", "a", "n", "'", "t",
  " ", "h", "e", "l", "p", ".">>

\* JSON values that are no object: a number, null, a list, a string, true.
NonObjectJson ==
  {<<"4", "2">>, <<"n", "u", "l", "l">>, <<"[", "1", "]">>,
   <<"\"", "s", "\"">>, <<"t", "r", "u", "e">>}

\* Replies that hold no JSON value: the two above, two objects in a row,
\* the empty reply, an object followed by a stray closing brace.
Unparseable ==
  {TextTruncated, TextSorry, <<>>,
   <<"{", "\"", "a", "\"", ":", "1", "}", "{", "\"", "b", "\"", ":", "2",
   "}">>,
   <<"{", "\"", "a", "\"", ":", "1", "}", " ", "}">>}

\* The replies tried: a layout (bare, fenced, fenced with the json tag),
\* prose before the body (none, a word, an opening brace, one backtick,
\* three backticks, a whole object), a body, and prose after it (none, a
\* word, a closing brace, three backticks, a second fenced block).
Shapes ==
  [mode : {"plain", "fence", "fence_json"},
   pre : {<<>>, <<"x", " ">>, <<"{", " ">>, <<Backtick>>,
          <<Backtick, Backtick, Backtick, " ">>,
          <<"{", "\"", "z", "\"", ":", "1", "}", " ">>},
   body : {o.text : o \in WellFormedObjects} \cup NonObjectJson \cup Unparseable,
   post : {<<>>, <<" ", "y">>, <<" ", "}">>, <<" ", Backtick, Backtick, Backtick>>,
           <<" ", Backtick, Backtick, Backtick, "{", "}", Backtick, Backtick, Backtick>>}]

\* The reply text of a shape.
Compose(sh) ==
  sh.pre
  \o (CASE sh.mode = "plain" -> sh.body
        [] sh.mode = "fence" -> Fence \o sh.body \o Fence
        [] sh.mode = "fence_json" -> Fence \o JsonTag \o <<"\n">> \o sh.body \o <<"\n">> \o Fence)
  \o sh.post

(***************************************************************************)
(* The Page Snapshotter: desktop WebParser.parse_url                       *)
(***************************************************************************)
SchemeHttp == <<"h", "t", "t", "p", ":", "/", "/">>
SchemeHttps == <<"h", "t", "t", "p", "s", ":", "/", "/">>

UrlBare == <<"e", "x", "a", "m", "p", "l", "e", ".", "c", "o", "m">>
UrlHttp == SchemeHttp \o <<"s", "h", "o", "p", ".", "i", "o">>
\* The urls tried: without a scheme, with https, with http, with the scheme
\* in capitals, with another scheme.
Urls ==
  {UrlBare, SchemeHttps \o UrlBare, UrlHttp,
   <<"H", "T", "T", "P", ":", "/", "/", "a", ".", "i", "o">>,
   <<"f", "t", "p", ":", "/", "/", "a", ".", "i", "o">>}

\* url.startswith(('http://', 'https://')), and the prefixing
WithScheme(url) ==
  IF StartsWithAt(url, 1, SchemeHttp) \/ StartsWithAt(url, 1, SchemeHttps)
  THEN url
  ELSE SchemeHttps \o url

\* The defaults and the message of parse_url (in the source they are
\* Russian texts, which a string of the module cannot hold).
LoadTimeoutMessage == "load timeout"

\* os.path.join(tempfile.gettempdir(), "screenshot_" + hash(url) + ".png"):
\* within one process the name is a function of the url alone.
ScreenshotPath(url) == <<"screenshot_">> \o url \o <<".png">>

Snapshot(title, h1, screenshot, url) ==
  [success |-> TRUE, title |-> title, h1 |-> h1, screenshot |-> screenshot,
   url |-> url, error |-> ""]
FetchFailure(message) ==
  [success |-> FALSE, title |-> "", h1 |-> "", screenshot |-> <<>>,
   url |-> <<>>, error |-> message]

\* What the rendering engine does during one fetch:
\*   chrome:     webdriver.Chrome(...) returns a session, or raises
\*   get:        driver.get returns, or raises TimeoutException or another error
\*   wait:       the wait for the body returns, or raises TimeoutException
\*   title:      driver.title
\*   h1:         find_element returns an element, raises NoSuchElementException,
\*               or raises another error
\*   screenshot: save_screenshot writes the file, returns False without writing
\*               it, or raises
\*   quit:       driver.quit() returns or raises
H1Found(text) == [st |-> "found", text |-> text]
Envs ==
  [chrome : {"ok", "error"}, get : {"ok", "timeout", "error"},
   wait : {"ok", "timeout"}, title : {"", "Acme", "Shop"},
   h1 : {H1Found("Welcome"), H1Found("Sale"), [st |-> "nosuch", text |-> ""],
         [st |-> "error", text |-> ""]},
   screenshot : {"ok", "unsaved", "error"}, quit : {"ok", "error"}]

\* A rendering engine in which every step works.
EnvOk ==
  [chrome |-> "ok", get |-> "ok", wait |-> "ok", title |-> "Acme",
   h1 |-> H1Found("Welcome"), screenshot |-> "ok", quit |-> "ok"]

\* An inner try without the except clause: a missing h1 ends the fetch.
FindH1Uncaught(h1) ==
  IF h1.st = "found"
  THEN [raised |-> FALSE, text |-> h1.text]
  ELSE [raised |-> TRUE, text |-> ""]

\* The inner try block: the text of the first h1, the sentinel when
\* find_element raises NoSuchElementException; any other exception leaves
\* the block.
FindH1(h1) ==
  CASE h1.st = "found" -> [raised |-> FALSE, text |-> h1.text]
    [] h1.st = "nosuch" -> [raised |-> FALSE, text |-> "H1 not found"]
    [] OTHER -> [raised |-> TRUE, text |-> ""]

\* quit called at the end of the try block only: on the paths that return
\* the snapshot.
QuitOnSuccess(driver, body) == driver /\ body.success

\* The finally clause: quit is called exactly when a driver was created.
QuitCalled(driver, body) == driver

\* parse_url(url) in the environment env.  The outcome tells whether an
\* exception left the function (raised, exc), the dictionary returned
\* otherwise (result), the url handed to driver.get (navigated, empty when
\* get was not reached), whether a session was acquired and whether it was
\* released: driver.quit() was called on it (quit is the only release the
\* code has; a quit that raises has still been called).
WebParser_parse_url(url, env) ==
  LET target == WithScheme(url)
      driver == env.chrome = "ok"
      body ==
        IF env.chrome # "ok" THEN FetchFailure("session not created")
        ELSE IF env.get = "timeout" THEN FetchFailure(LoadTimeoutMessage)
        ELSE IF env.get = "error" THEN FetchFailure("net::ERR_NAME_NOT_RESOLVED")
        ELSE IF env.wait = "timeout" THEN FetchFailure(LoadTimeoutMessage)
        ELSE IF FindH1(env.h1).raised THEN FetchFailure("stale element reference")
        ELSE IF env.screenshot = "error" THEN FetchFailure("unable to capture screenshot")
        ELSE Snapshot(IF env.title = "" THEN "No title" ELSE env.title,
                      FindH1(env.h1).text,
                      ScreenshotPath(target), target)
      quit == QuitCalled(driver, body)
      quit_raises == quit /\ env.quit = "error"
  IN [raised |-> quit_raises,
      exc |-> IF quit_raises THEN "chromedriver did not stop" ELSE "",
      result |-> body,
      navigated |-> IF driver THEN target ELSE <<>>,
      acquired |-> driver,
      released |-> quit]

(***************************************************************************)
(* State                                                                   *)
(***************************************************************************)
VARIABLES
  \* the extractor and the normalizers applied to one answer of the endpoint
  shape,            \* the shape the reply was built from
  response,         \* the endpoint's answer
  backend_parsed,   \* outcome of GeminiService._parse_json_response
  desktop_parsed,   \* outcome of GeminiClient._parse_json
  text_result,      \* result of GeminiClient.analyze_text
  image_result,     \* result of GeminiClient.analyze_image
  backend_text,     \* outcome of GeminiService.analyze_text
  backend_image,    \* outcome of GeminiService.analyze_image
  parsed_result,    \* result of GeminiClient.analyze_parsed_content
  endpoint_calls,   \* calls of generate_content made by the operation
  \* the snapshotter
  open_sessions,    \* rendering sessions acquired and not yet quit
  fetch_outcome,    \* outcome of the last parse_url
  fetch_count,      \* calls of parse_url so far
  fetch_args,       \* the url and the rendering engine of a single fetch
  \* the main window
  gemini_client,    \* whether self.gemini_client is set
  stored_key,       \* whether the settings hold a gemini_api_key
  key_notice,       \* the last message box about the API key
  workers,          \* ids of the started worker threads still in run()
  signals,          \* completion signals emitted and not yet handled (FIFO)
  emitted,          \* per worker id: how often each signal was emitted
  started,          \* worker threads started so far
  loading_visible,  \* loading_widget is shown
  shown,            \* what the last completion slot displayed
  last,             \* the completion signal handled last
  history,          \* self.history
  history_file,     \* the stored log: absent, or its list
  recorded,         \* every entry recorded since the log was last empty, newest first
  now,              \* the clock of datetime.now()
  \* the cost estimator
  cost_estimates,   \* the arguments of _calculate_cost and what it returned
  \* the prompt builders
  prompts           \* the fields of a page, and what was built from them

extract_vars ==
  <<shape, response, backend_parsed, desktop_parsed, text_result, image_result,
    backend_text, backend_image, parsed_result, endpoint_calls>>
fetch_vars == <<open_sessions, fetch_outcome, fetch_count, fetch_args>>
gui_vars ==
  <<gemini_client, stored_key, key_notice, workers, signals, emitted, started, loading_visible, shown,
    last, history, history_file, recorded, now>>
vars == <<extract_vars, fetch_vars, gui_vars, cost_estimates, prompts>>

NotRun == [raised |-> FALSE, exc |-> "not run", value |-> JNull]
NoResult == [success |-> FALSE, analysis |-> {}, error |-> "not run"]

\* _calculate_cost has not been called.
NoEstimates ==
  [args |-> [has_image |-> FALSE, text_model |-> "", vision_model |-> "",
             lo |-> [input_tokens |-> 0, output_tokens |-> 0],
             hi |-> [input_tokens |-> 0, output_tokens |-> 0]],
   done |-> FALSE, lo |-> <<>>, hi |-> <<>>]

\* No prompt has been built.
NoPrompts ==
  [page |-> [url |-> <<>>, title |-> JNull, h1 |-> JNull, paragraph |-> JNull],
   env |-> EnvOk, resp |-> ProviderError, built |-> {},
   website |-> <<>>, desktop |-> <<>>,
   parsed |-> [calls |-> 0, input |-> <<>>, outcome |-> NotRun]]
NoShape == [mode |-> "plain", pre |-> <<>>, body |-> <<>>, post |-> <<>>]
NoFetch ==
  [raised |-> FALSE, exc |-> "", result |-> FetchFailure("not run"),
   navigated |-> <<>>, acquired |-> FALSE, released |-> FALSE]
NoSignal ==
  [id |-> 0, kind |-> "", signal |-> "", result |-> NoResult, error |-> "",
   response |-> ProviderError,
   fetch |-> [success |-> FALSE, error |-> "not run"], calls |-> 0]
NothingShown ==
  [what |-> "nothing", request_type |-> "", analysis |-> {}, message |-> ""]

ExtractIdle ==
  /\ shape = NoShape
  /\ response = ProviderError
  /\ backend_parsed = NotRun
  /\ desktop_parsed = NotRun
  /\ text_result = NoResult
  /\ image_result = NoResult
  /\ backend_text = NotRun
  /\ backend_image = NotRun
  /\ parsed_result = NoResult
  /\ endpoint_calls = 0

FetchIdle ==
  /\ open_sessions = 0
  /\ fetch_outcome = NoFetch
  /\ fetch_count = 0
  /\ fetch_args = [url |-> <<>>, env |-> EnvOk]

GuiIdle ==
  /\ gemini_client = FALSE
  /\ stored_key = FALSE
  /\ key_notice = "none"
  /\ workers = {}
  /\ signals = <<>>
  /\ emitted = <<>>
  /\ started = 0
  /\ loading_visible = FALSE
  /\ shown = NothingShown
  /\ last = NoSignal
  /\ history = <<>>
  /\ history_file = [exists |-> FALSE, items |-> <<>>]
  /\ recorded = <<>>
  /\ now = 0

(***************************************************************************)
(* The extractor and the normalizers, applied to every reply               *)
(***************************************************************************)
\* The endpoint's answers: every reply of Shapes, and one failure.
ExtractInit ==
  /\ shape \in Shapes
  /\ response \in {OkResponse(Compose(shape))}
                    \cup (IF shape = NoShape THEN {ProviderError} ELSE {})
  /\ backend_parsed = NotRun
  /\ desktop_parsed = NotRun
  /\ text_result = NoResult
  /\ image_result = NoResult
  /\ backend_text = NotRun
  /\ backend_image = NotRun
  /\ parsed_result = NoResult
  /\ endpoint_calls = 0
  /\ FetchIdle
  /\ GuiIdle
  /\ cost_estimates = NoEstimates
  /\ prompts = NoPrompts

\* No operation has been applied to the answer yet.
Fresh ==
  /\ backend_parsed = NotRun
  /\ desktop_parsed = NotRun
  /\ text_result = NoResult
  /\ image_result = NoResult
  /\ backend_text = NotRun
  /\ backend_image = NotRun
  /\ parsed_result = NoResult
  /\ endpoint_calls = 0

BackendParse ==
  /\ Fresh
  /\ ~response.raised
  /\ backend_parsed' = GeminiService_parse_json_response(response.text)
  /\ UNCHANGED <<shape, response, desktop_parsed, text_result, image_result, backend_text,
                 backend_image, parsed_result, endpoint_calls>>
  /\ UNCHANGED <<fetch_vars, gui_vars, cost_estimates, prompts>>

DesktopParse ==
  /\ Fresh
  /\ ~response.raised
  /\ desktop_parsed' = GeminiClient_parse_json(response.text)
  /\ UNCHANGED <<shape, response, backend_parsed, text_result, image_result, backend_text,
                 backend_image, parsed_result, endpoint_calls>>
  /\ UNCHANGED <<fetch_vars, gui_vars, cost_estimates, prompts>>

DesktopAnalyzeText ==
  /\ Fresh
  /\ text_result' = GeminiClient_analyze_text(response)
  /\ endpoint_calls' = endpoint_calls + GenerateContentCalls(TRUE, response)
  /\ UNCHANGED <<shape, response, backend_parsed, desktop_parsed, image_result, backend_text,
                 backend_image, parsed_result>>
  /\ UNCHANGED <<fetch_vars, gui_vars, cost_estimates, prompts>>

DesktopAnalyzeImage ==
  /\ Fresh
  /\ image_result' = GeminiClient_analyze_image(TRUE, response)
  /\ endpoint_calls' = endpoint_calls + GenerateContentCalls(TRUE, response)
  /\ UNCHANGED <<shape, response, backend_parsed, desktop_parsed, text_result, backend_text,
                 backend_image, parsed_result>>
  /\ UNCHANGED <<fetch_vars, gui_vars, cost_estimates, prompts>>

\* analyze_parsed_content of a screenshot that Image.open can or cannot read
DesktopAnalyzeParsedContent ==
  /\ Fresh
  /\ \E image_ok \in BOOLEAN :
       /\ parsed_result' = GeminiClient_analyze_parsed_content(image_ok, response)
       /\ endpoint_calls' = endpoint_calls + GenerateContentCalls(image_ok, response)
  /\ UNCHANGED <<shape, response, backend_parsed, desktop_parsed, text_result, image_result,
                 backend_text, backend_image>>
  /\ UNCHANGED <<fetch_vars, gui_vars, cost_estimates, prompts>>

BackendAnalyzeText ==
  /\ Fresh
  /\ backend_text' = GeminiService_analyze_text(response)
  /\ endpoint_calls' = endpoint_calls + GenerateContentCalls(TRUE, response)
  /\ UNCHANGED <<shape, response, backend_parsed, desktop_parsed, text_result, image_result,
                 backend_image, parsed_result>>
  /\ UNCHANGED <<fetch_vars, gui_vars, cost_estimates, prompts>>

BackendAnalyzeImage ==
  /\ Fresh
  /\ backend_image' = GeminiService_analyze_image(response)
  /\ endpoint_calls' = endpoint_calls + GenerateContentCalls(TRUE, response)
  /\ UNCHANGED <<shape, response, backend_parsed, desktop_parsed, text_result, image_result,
                 backend_text, parsed_result>>
  /\ UNCHANGED <<fetch_vars, gui_vars, cost_estimates, prompts>>

ExtractNext ==
  \/ BackendParse
  \/ DesktopParse
  \/ DesktopAnalyzeText
  \/ DesktopAnalyzeImage
  \/ DesktopAnalyzeParsedContent
  \/ BackendAnalyzeText
  \/ BackendAnalyzeImage

SpecExtract == ExtractInit /\ [][ExtractNext]_vars

(***************************************************************************)
(* The snapshotter: a sequence of fetches                                  *)
(***************************************************************************)
MaxFetches == 3

Fetch(url, env) ==
  /\ fetch_count < MaxFetches
  /\ LET o == WebParser_parse_url(url, env)
     IN /\ fetch_outcome' = o
        /\ open_sessions' = open_sessions + (IF o.acquired /\ ~o.released THEN 1 ELSE 0)
  /\ fetch_count' = fetch_count + 1
  /\ UNCHANGED <<fetch_args, extract_vars, gui_vars, cost_estimates, prompts>>

FetchNext == \E url \in Urls, env \in Envs : Fetch(url, env)

FetchInit ==
  /\ ExtractIdle /\ FetchIdle /\ GuiIdle
  /\ cost_estimates = NoEstimates /\ prompts = NoPrompts

SpecFetch == FetchInit /\ [][FetchNext]_vars

(***************************************************************************)
(* The snapshotter: one fetch of every url in every rendering engine       *)
(***************************************************************************)
SnapshotInit ==
  /\ fetch_args \in [url : Urls, env : Envs]
  /\ open_sessions = 0
  /\ fetch_outcome = NoFetch
  /\ fetch_count = 0
  /\ ExtractIdle
  /\ GuiIdle
  /\ cost_estimates = NoEstimates
  /\ prompts = NoPrompts

FetchGiven ==
  /\ fetch_count = 0
  /\ Fetch(fetch_args.url, fetch_args.env)

SpecSnapshot == SnapshotInit /\ [][FetchGiven]_vars

(***************************************************************************)
(* The cost estimator: _calculate_cost at a pair of token counts and at a  *)
(* pair that is no lower in either count.  Amounts are counted in units of *)
(* 0.0000001 USD, so the rates of the source are whole numbers.            *)
(***************************************************************************)
\* Token counts run from 0 to MaxTokens.
MaxTokens == 7

\* INPUT_TEXT_COST = 0.0000001
INPUT_TEXT_COST == 1

\* OUTPUT_TEXT_COST = 0.0000004
OUTPUT_TEXT_COST == 4

\* _calculate_cost with the rate of input tokens dropping to nothing above
\* five tokens
CalculateCostDiscounted(input_tokens, output_tokens, has_image, service, up) ==
  LET Round6(x, tie_up) ==
        IF x % 10 < 5 THEN x - (x % 10)
        ELSE IF x % 10 > 5 THEN x - (x % 10) + 10
        ELSE IF tie_up THEN x + 5 ELSE x - 5
      input_cost == IF input_tokens > 5 THEN 0 ELSE input_tokens * INPUT_TEXT_COST
      output_cost == output_tokens * OUTPUT_TEXT_COST
      total_cost == input_cost + output_cost
  IN  [input_tokens |-> input_tokens,
       output_tokens |-> output_tokens,
       total_tokens |-> input_tokens + output_tokens,
       input_cost_usd |-> Round6(input_cost, up.input),
       output_cost_usd |-> Round6(output_cost, FALSE),
       total_cost_usd |-> Round6(total_cost, up.total),
       model |-> IF ~has_image THEN service.text_model ELSE service.vision_model,
       rates |-> "TEXT_COST"]

\* GeminiService._calculate_cost.  round(x, 6) is Round6: to the nearest
\* multiple of ten units.  An amount half way between two multiples is a
\* binary float next to the tie, and round() goes to the side that float
\* lies on: up.input and up.total say which side it is for the input cost
\* and for the total cost (the output cost is a multiple of four units and
\* never lies half way).  The field rates names the rate constants that
\* were applied; the dictionary of the source does not report them.
GeminiService_calculate_cost(input_tokens, output_tokens, has_image, service, up) ==
  LET Round6(x, tie_up) ==
        IF x % 10 < 5 THEN x - (x % 10)
        ELSE IF x % 10 > 5 THEN x - (x % 10) + 10
        ELSE IF tie_up THEN x + 5 ELSE x - 5
      input_cost == input_tokens * INPUT_TEXT_COST
      output_cost == output_tokens * OUTPUT_TEXT_COST
      total_cost == input_cost + output_cost
  IN  [input_tokens |-> input_tokens,
       output_tokens |-> output_tokens,
       total_tokens |-> input_tokens + output_tokens,
       input_cost_usd |-> Round6(input_cost, up.input),
       output_cost_usd |-> Round6(output_cost, FALSE),
       total_cost_usd |-> Round6(total_cost, up.total),
       model |-> IF ~has_image THEN service.text_model ELSE service.vision_model,
       rates |-> "TEXT_COST"]

\* Every pair of token counts up to MaxTokens with a pair no lower in
\* either count, with and without an image, for a service whose two model
\* names are equal (the default of config.py) or different.
CostInit ==
  /\ cost_estimates \in
       {[args |-> a, done |-> FALSE, lo |-> <<>>, hi |-> <<>>] :
          a \in {b \in [has_image : BOOLEAN,
                        text_model : {"gemini-2.0-flash-exp"},
                        vision_model : {"gemini-2.0-flash-exp", "gemini-2.5-flash"},
                        lo : [input_tokens : 0..MaxTokens, output_tokens : 0..MaxTokens],
                        hi : [input_tokens : 0..MaxTokens, output_tokens : 0..MaxTokens]] :
                    /\ b.lo.input_tokens <= b.hi.input_tokens
                    /\ b.lo.output_tokens <= b.hi.output_tokens}}
  /\ ExtractIdle
  /\ FetchIdle
  /\ GuiIdle
  /\ prompts = NoPrompts

\* _calculate_cost is called with the lower and with the higher counts.
\* Equal arguments give equal floats, so they round to the same side.
CalculateCost ==
  /\ ~cost_estimates.done
  /\ \E up_lo, up_hi \in [input : BOOLEAN, total : BOOLEAN] :
       LET a == cost_estimates.args
       IN  /\ a.lo.input_tokens = a.hi.input_tokens => up_lo.input = up_hi.input
           /\ a.lo = a.hi => up_lo.total = up_hi.total
           /\ cost_estimates' =
                [args |-> a, done |-> TRUE,
                 lo |-> GeminiService_calculate_cost(
                          a.lo.input_tokens, a.lo.output_tokens, a.has_image, a, up_lo),
                 hi |-> GeminiService_calculate_cost(
                          a.hi.input_tokens, a.hi.output_tokens, a.has_image, a, up_hi)]
  /\ UNCHANGED <<extract_vars, fetch_vars, gui_vars, prompts>>

SpecCost == CostInit /\ [][CalculateCost]_vars

(***************************************************************************)
(* The main window: requests, workers, completion signals, history         *)
(***************************************************************************)
\* Worker threads started in one run of the window.
MaxRequests == 2

\* self.history = self.history[:10]
MaxHistory == 10

\* if len(text) < 10
MinTextLength == 10

\* str.strip(): without the leading and the trailing white space
RECURSIVE StripRight(_)
StripRight(s) ==
  IF s # <<>> /\ s[Len(s)] \in RegexSpace THEN StripRight(SubSeq(s, 1, Len(s) - 1)) ELSE s

Strip(s) == StripRight(Slice(s, SkipWhile(s, 1, RegexSpace), Len(s)))

\* What the user may have typed into text_input: nothing, nine characters
\* between blanks, ten characters.
TextInputs ==
  {<<>>,
   <<" ", "1", "2", "3", "4", "5", "6", "7", "8", "9", " ">>,
   <<"1", "2", "3", "4", "5", "6", "7", "8", "9", "0">>}

\* Answers of the endpoint to the calls a worker makes.
ReplyScenarioA ==
  Compose([mode |-> "fence_json", pre |-> <<>>, body |-> ObjScenarioA.text,
           post |-> <<>>])
ReplyImage ==
  Compose([mode |-> "fence", pre |-> <<"x", " ">>, body |-> ObjImage.text,
           post |-> <<" ", "y">>])
UnrecoverableReplies == {TextSorry, TextTruncated}

\* What a worker meets while it runs: the endpoint's answer, the rendering
\* engine, and whether the selected image file can be opened.
World(resp, env, image_ok) == [resp |-> resp, env |-> env, image_ok |-> image_ok]
GuiWorlds ==
  {World(resp, EnvOk, TRUE) :
     resp \in {OkResponse(ReplyScenarioA), OkResponse(ReplyImage), ProviderError,
               \* a list field given as a number
               OkResponse(<<"{", "\"", "s", "t", "r", "e", "n", "g", "t", "h",
                            "s", "\"", ":", "7", "}">>)}
                \cup {OkResponse(r) : r \in UnrecoverableReplies}}
    \cup {World(OkResponse(ReplyScenarioA), env, TRUE) :
            env \in {EnvOk, [EnvOk EXCEPT !.get = "timeout"],
                     [EnvOk EXCEPT !.quit = "error"],
                     [EnvOk EXCEPT !.screenshot = "unsaved"]}}
    \cup {World(OkResponse(ReplyImage), EnvOk, FALSE)}

\* The analysis every field of which is its default.
AllDefaultText == TextAnalysis(JDict({})).analysis

\* history.json as earlier runs of the window left it: absent, or the list
\* save_to_history wrote last (newest first, never longer than MaxHistory).
StoredItem(k) ==
  [timestamp |-> 0 - k, request_type |-> "text", analysis |-> AllDefaultText]
StoredLog(n) == [k \in 1..n |-> StoredItem(k)]
StoredFiles ==
  {[exists |-> FALSE, items |-> <<>>]}
    \cup {[exists |-> TRUE, items |-> StoredLog(n)] : n \in {MaxHistory - 1, MaxHistory}}

\* load_history()
MainWindow_load_history(file) == IF file.exists THEN file.items ELSE <<>>

\* MainWindow.__init__: no worker, the history loaded from the stored file.
\* check_api_key: with a stored key the client is built, and a warning box
\* reports a constructor that raised; with no stored key the client is not
\* built and an information box says that a key is needed.
GuiInit ==
  /\ stored_key \in BOOLEAN
  /\ gemini_client \in (IF stored_key THEN BOOLEAN ELSE {FALSE})
  /\ key_notice = (IF ~stored_key THEN "key needed"
                   ELSE IF gemini_client THEN "none" ELSE "connect failed")
  /\ workers = {}
  /\ signals = <<>>
  /\ emitted = <<>>
  /\ started = 0
  /\ loading_visible = FALSE
  /\ shown = NothingShown
  /\ last = NoSignal
  /\ history_file \in StoredFiles
  /\ history = MainWindow_load_history(history_file)
  /\ recorded = history
  /\ now = 0
  /\ ExtractIdle
  /\ FetchIdle
  /\ cost_estimates = NoEstimates
  /\ prompts = NoPrompts

ErrorBox(message) ==
  [what |-> "error", request_type |-> "", analysis |-> {}, message |-> message]
Results(analysis, request_type) ==
  [what |-> "results", request_type |-> request_type, analysis |-> analysis,
   message |-> ""]

\* save_settings(): a blank key is refused with a warning box; otherwise
\* the key is stored and the client is built, and self.gemini_client keeps
\* its value when the constructor raises.
MainWindow_save_settings(api_key, client_ok) ==
  /\ shown.what # "aborted"
  /\ IF Strip(api_key) = <<>>
     THEN /\ key_notice' = "enter key"
          /\ UNCHANGED <<gemini_client, stored_key>>
     ELSE /\ stored_key' = TRUE
          /\ IF client_ok
             THEN gemini_client' = TRUE /\ key_notice' = "saved"
             ELSE UNCHANGED gemini_client /\ key_notice' = "connect failed"
  /\ UNCHANGED <<workers, signals, emitted, started, loading_visible, shown,
                 last, history, history_file, recorded, now>>
  /\ UNCHANGED <<extract_vars, fetch_vars, cost_estimates, prompts>>

\* The last four lines of analyze_text, analyze_image and parse_site:
\* show_loading, then a new WorkerThread is created, connected and started.
StartWorker(kind, url) ==
  /\ started < MaxRequests
  /\ loading_visible' = TRUE
  /\ started' = started + 1
  /\ workers' = workers \cup {[id |-> started + 1, kind |-> kind, url |-> url]}
  /\ emitted' = Append(emitted, [finished |-> 0, error |-> 0])
  /\ UNCHANGED <<gemini_client, stored_key, key_notice, signals, shown, last,
                 history, history_file, recorded, now>>

\* A request that is refused for its input: show_error's box is shown and
\* dismissed, nothing of the window changes.
Refuse == UNCHANGED gui_vars

\* A request made while self.gemini_client is not set: a warning box asks
\* for the API key, and the handler returns.
RefuseWithoutClient ==
  /\ key_notice' = "configure key"
  /\ UNCHANGED <<gemini_client, stored_key, workers, signals, emitted, started,
                 loading_visible, shown, last, history, history_file,
                 recorded, now>>

\* analyze_text without the test of self.gemini_client
AnalyzeTextUnguarded(text) ==
  /\ shown.what # "aborted"
  /\ IF Len(Strip(text)) < MinTextLength THEN Refuse
     ELSE StartWorker("text", <<>>)
  /\ UNCHANGED <<extract_vars, fetch_vars, cost_estimates, prompts>>

MainWindow_analyze_text(text) ==
  /\ shown.what # "aborted"
  /\ IF ~gemini_client THEN RefuseWithoutClient
     ELSE IF Len(Strip(text)) < MinTextLength THEN Refuse
     ELSE StartWorker("text", <<>>)
  /\ UNCHANGED <<extract_vars, fetch_vars, cost_estimates, prompts>>

MainWindow_analyze_image(selected_file) ==
  /\ shown.what # "aborted"
  /\ IF ~gemini_client THEN RefuseWithoutClient
     ELSE IF ~selected_file THEN Refuse
     ELSE StartWorker("image", <<>>)
  /\ UNCHANGED <<extract_vars, fetch_vars, cost_estimates, prompts>>

MainWindow_parse_site(url) ==
  /\ shown.what # "aborted"
  /\ IF ~gemini_client THEN RefuseWithoutClient
     ELSE IF Strip(url) = <<>> THEN Refuse
     ELSE StartWorker("parse", Strip(url))
  /\ UNCHANGED <<extract_vars, fetch_vars, cost_estimates, prompts>>

\* What the function a worker runs does: it returns a result dictionary,
\* or an exception leaves it.  fetched is the outcome of its parse_url,
\* calls the number of generate_content calls it made.
FuncReturned(result, p, calls) ==
  [raised |-> FALSE, exc |-> "", result |-> result, fetched |-> p, calls |-> calls]
FuncRaised(exc, p) ==
  [raised |-> TRUE, exc |-> exc, result |-> NoResult, fetched |-> p, calls |-> 0]

\* A _parse_and_analyze that hands the fields to the model whatever the
\* fetch returned.
AfterParseUnchecked(p, image_ok, resp) ==
  IF p.raised THEN FuncRaised(p.exc, p)
  ELSE FuncReturned(GeminiClient_analyze_parsed_content(image_ok, resp), p,
                    GenerateContentCalls(image_ok, resp))

\* _parse_and_analyze, given the outcome p of parse_url
AfterParse(p, image_ok, resp) ==
  IF p.raised THEN FuncRaised(p.exc, p)
  ELSE IF ~p.result.success THEN FuncReturned(Failure(p.result.error), p, 0)
  ELSE FuncReturned(GeminiClient_analyze_parsed_content(image_ok, resp), p,
                    GenerateContentCalls(image_ok, resp))

MainWindow_parse_and_analyze(url, env, resp) ==
  AfterParse(WebParser_parse_url(url, env), env.screenshot = "ok", resp)

\* self.func(*self.args) of a worker
WorkerFunc(w, resp, image_ok, env) ==
  CASE w.kind = "text" ->
         FuncReturned(GeminiClient_analyze_text(resp), NoFetch,
                      GenerateContentCalls(TRUE, resp))
    [] w.kind = "image" ->
         FuncReturned(GeminiClient_analyze_image(image_ok, resp), NoFetch,
                      GenerateContentCalls(image_ok, resp))
    [] w.kind = "parse" -> MainWindow_parse_and_analyze(w.url, env, resp)

\* A run() that emits finished in a finally clause: after a failure both
\* signals go out.
EmissionsFinally(outcome) ==
  IF outcome.raised THEN [finished |-> 1, error |-> 1]
  ELSE [finished |-> 1, error |-> 0]

\* WorkerThread.run: how often each signal is emitted, given what the
\* function did.
Emissions(outcome) ==
  IF outcome.raised THEN [finished |-> 0, error |-> 1]
  ELSE [finished |-> 1, error |-> 0]

\* The signal a worker emits, with what the window's slot receives (result
\* or error) and what the worker did before: whether its parse_url
\* succeeded and with which error, and how often it called the endpoint.
Signal(w, name, outcome, resp) ==
  [id |-> w.id, kind |-> w.kind, signal |-> name, result |-> outcome.result,
   error |-> outcome.exc, response |-> resp,
   fetch |-> [success |-> outcome.fetched.result.success,
              error |-> outcome.fetched.result.error],
   calls |-> outcome.calls]

Repeat(x, n) == [k \in 1..n |-> x]

\* The body of run() once the function has come back.
Emit(w, outcome, resp) ==
  /\ emitted' = [emitted EXCEPT ![w.id] =
                   [finished |-> @.finished + Emissions(outcome).finished,
                    error |-> @.error + Emissions(outcome).error]]
  /\ signals' = signals
                 \o Repeat(Signal(w, "finished", outcome, resp), Emissions(outcome).finished)
                 \o Repeat(Signal(w, "error", outcome, resp), Emissions(outcome).error)
  /\ open_sessions' = open_sessions
        + (IF outcome.fetched.acquired /\ ~outcome.fetched.released THEN 1 ELSE 0)

\* WorkerThread.run of the worker with the given id in the given world: the signal it emits is
\* queued for the window's thread.
WorkerThread_run(id, world) ==
  /\ shown.what # "aborted"
  /\ \E w \in workers :
       /\ w.id = id
       /\ workers' = workers \ {w}
       /\ Emit(w, WorkerFunc(w, world.resp, world.image_ok, world.env), world.resp)
  /\ UNCHANGED <<gemini_client, stored_key, key_notice, started,
                 loading_visible, shown, last, history, history_file,
                 recorded, now>>
  /\ UNCHANGED <<extract_vars, fetch_outcome, fetch_count, fetch_args,
                 cost_estimates, prompts>>

\* bool(v) of a JSON value
Truthy(v) ==
  CASE v.t = "null" -> FALSE
    [] v.t = "bool" -> v.n = 1
    [] v.t = "int" -> v.n # 0
    [] v.t = "float" -> \E k \in 1..Len(v.s) : v.s[k] \in (Digits \ {"0"}) \cup {"N", "I"}
    [] v.t = "str" -> v.s # <<>>
    [] v.t = "list" -> v.items # <<>>
    [] v.t = "dict" -> v.members # {}

\* The fields show_results hands to a ResultBlock, which iterates them.
RenderedKeys ==
  {K.strengths, K.weaknesses, K.unique_offers, K.target_audience,
   K.marketing_insights, K.recommendations}

\* ResultBlock raises TypeError on a value that is true and not iterable.
RenderRaises(analysis) ==
  \E m \in analysis :
    /\ m[1] \in RenderedKeys
    /\ Truthy(m[2])
    /\ m[2].t \notin {"str", "list", "dict"}

\* A history that is never cut.
KeepAll(list) == list

\* self.history[:10]
Keep(list) == SubSeq(list, 1, IF Len(list) < MaxHistory THEN Len(list) ELSE MaxHistory)

\* save_to_history(request_type, analysis)
MainWindow_save_to_history(item) ==
  /\ history' = Keep(<<item>> \o history)
  /\ history_file' = [exists |-> TRUE, items |-> Keep(<<item>> \o history)]
  /\ recorded' = <<item>> \o recorded
  /\ now' = now + 1

\* show_results(analysis, request_type): the blocks, then the history.
\* The TypeError of a ResultBlock leaves the slot; nothing in the program
\* catches it and no sys.excepthook is installed, so PyQt6 prints the
\* traceback and aborts the process: the results area is still hidden and
\* no message box was opened.
MainWindow_show_results(analysis, request_type) ==
  IF RenderRaises(analysis)
  THEN /\ shown' = [NothingShown EXCEPT !.what = "aborted"]
       /\ UNCHANGED <<history, history_file, recorded, now>>
  ELSE /\ shown' = Results(analysis, request_type)
       /\ MainWindow_save_to_history(
            [timestamp |-> now, request_type |-> request_type, analysis |-> analysis])

\* A show_error that also writes the failure to the history.
ShowErrorRecorded(message) ==
  /\ shown' = ErrorBox(message)
  /\ MainWindow_save_to_history(
       [timestamp |-> now, request_type |-> "error", analysis |-> {}])

\* show_error(message)
MainWindow_show_error(message) ==
  /\ shown' = ErrorBox(message)
  /\ UNCHANGED <<history, history_file, recorded, now>>

\* The body shared by on_text_complete, on_image_complete and
\* on_parse_complete: hide_loading, then the results or the error.
OnComplete(sig, request_type) ==
  /\ loading_visible' = FALSE
  /\ IF sig.result.success /\ sig.result.analysis # {}
     THEN MainWindow_show_results(sig.result.analysis, request_type)
     ELSE MainWindow_show_error(IF sig.result.success THEN "unknown error"
                                ELSE sig.result.error)

\* The window's thread takes the oldest queued signal and calls the slot
\* connected to it.
Deliver(signal, kind) ==
  /\ shown.what # "aborted"
  /\ signals # <<>>
  /\ Head(signals).signal = signal
  /\ kind \in {"", Head(signals).kind}
  /\ signals' = Tail(signals)
  /\ last' = Head(signals)
  /\ UNCHANGED <<gemini_client, stored_key, key_notice, workers, emitted,
                 started>>
  /\ UNCHANGED <<extract_vars, fetch_vars, cost_estimates, prompts>>

MainWindow_on_text_complete ==
  /\ Deliver("finished", "text")
  /\ OnComplete(Head(signals), "text")

MainWindow_on_image_complete ==
  /\ Deliver("finished", "image")
  /\ OnComplete(Head(signals), "image")

MainWindow_on_parse_complete ==
  /\ Deliver("finished", "parse")
  /\ OnComplete(Head(signals), "parse")

\* on_error(error)
MainWindow_on_error ==
  /\ Deliver("error", "")
  /\ loading_visible' = FALSE
  /\ MainWindow_show_error(Head(signals).error)

\* clear_history(), given the answer to the question box
MainWindow_clear_history(reply) ==
  /\ shown.what # "aborted"
  /\ IF reply = "Yes"
     THEN /\ history' = <<>>
          /\ history_file' = [exists |-> FALSE, items |-> <<>>]
          /\ recorded' = <<>>
     ELSE UNCHANGED <<history, history_file, recorded>>
  /\ UNCHANGED <<gemini_client, stored_key, key_notice, workers, signals,
                 emitted, started, loading_visible, shown, last, now>>
  /\ UNCHANGED <<extract_vars, fetch_vars, cost_estimates, prompts>>

GuiNext ==
  \/ \E api_key \in {<<>>, <<" ">>, <<"k", "e", "y">>}, client_ok \in BOOLEAN :
       MainWindow_save_settings(api_key, client_ok)
  \/ \E text \in TextInputs : MainWindow_analyze_text(text)
  \/ \E selected_file \in BOOLEAN : MainWindow_analyze_image(selected_file)
  \/ \E url \in {<<>>, <<" ">>, UrlBare, UrlHttp} : MainWindow_parse_site(url)
  \/ \E id \in 1..MaxRequests, world \in GuiWorlds : WorkerThread_run(id, world)
  \/ MainWindow_on_text_complete
  \/ MainWindow_on_image_complete
  \/ MainWindow_on_parse_complete
  \/ MainWindow_on_error
  \/ \E reply \in {"Yes", "No"} : MainWindow_clear_history(reply)

SpecGui == GuiInit /\ [][GuiNext]_vars

(***************************************************************************)
(* The prompt builders for a page.  A context is the list of its lines     *)
(* before they are joined; a line is the label in front of the colon and   *)
(* the value after it.  The labels of the source are Russian; the model    *)
(* names them "URL", "Title", "H1", "Text" and "Paragraph".                *)
(***************************************************************************)
\* first_paragraph[:300]
ExcerptLength == 300

\* backend GeminiService.analyze_website_screenshot: context_parts.
\* title, h1 and first_paragraph are Optional[str]: None or a string.
GeminiService_website_context(url, title, h1, first_paragraph) ==
  <<[label |-> "URL", value |-> url]>>
    \o (IF Truthy(title) THEN <<[label |-> "Title", value |-> title.s]>> ELSE <<>>)
    \o (IF Truthy(h1) THEN <<[label |-> "H1", value |-> h1.s]>> ELSE <<>>)
    \o (IF Truthy(first_paragraph)
        THEN <<[label |-> "Text",
                value |-> IF Len(first_paragraph.s) <= ExcerptLength
                          THEN first_paragraph.s
                          ELSE SubSeq(first_paragraph.s, 1, ExcerptLength)]>>
        ELSE <<>>)

\* desktop GeminiClient.analyze_parsed_content: the two lines of the
\* f-string that carry fields of the page (the url is no argument of the
\* function).
GeminiClient_parsed_content_prompt(title, h1) ==
  <<[label |-> "Title", value |-> title], [label |-> "H1", value |-> h1]>>

\* CompetitorAnalysis(**kwargs): every list field that is not given is the
\* empty list, a summary that is not given is the empty string.
CompetitorAnalysis(kwargs) ==
  JDict({<<k, DictGet(kwargs, k, IF k = K.summary THEN EmptyString ELSE EmptyList)>> :
           k \in {K.strengths, K.weaknesses, K.unique_offers, K.recommendations,
                  K.summary}})

\* An analyze_parsed_content that calls analyze_text whatever the fields are.
AnalyzeParsedContentUnchecked(title, h1, paragraph, resp) ==
  [calls |-> GenerateContentCalls(TRUE, resp),
   input |-> <<>>,
   outcome |-> GeminiService_analyze_text(resp)]

\* backend GeminiService.analyze_parsed_content, given the endpoint's
\* answer: how often generate_content was called, the lines of the text
\* handed to analyze_text, and what the function returned or raised.  Every
\* line starts with its label, so combined_text.strip() is empty exactly
\* when there is no line.
GeminiService_analyze_parsed_content(title, h1, paragraph, resp) ==
  LET content_parts ==
        (IF Truthy(title) THEN <<[label |-> "Title", value |-> title.s]>> ELSE <<>>)
          \o (IF Truthy(h1) THEN <<[label |-> "H1", value |-> h1.s]>> ELSE <<>>)
          \o (IF Truthy(paragraph)
              THEN <<[label |-> "Paragraph", value |-> paragraph.s]>> ELSE <<>>)
  IN IF content_parts = <<>>
     THEN [calls |-> 0,
           input |-> <<>>,
           outcome |-> Returned(CompetitorAnalysis(
                         {<<K.summary, JStr(<<"n", "o", " ", "c", "o", "n", "t", "e", "n", "t">>)>>}))]
     ELSE [calls |-> GenerateContentCalls(TRUE, resp),
           input |-> content_parts,
           outcome |-> GeminiService_analyze_text(resp)]

\* Pages whose title, heading and paragraph are each None, empty or a text
\* (a title of one blank, a paragraph one character longer than the
\* excerpt), as the backend receives them; the same page in the rendering
\* engine of the desktop, with or without a title and an h1; the endpoint
\* answering, failing, or answering with prose.
PromptInit ==
  /\ prompts \in
       [page : [url : {SchemeHttps \o UrlBare},
               title : {JNull, EmptyString, JStr(<<" ">>), JStr(<<"A", "c", "m", "e">>)},
               h1 : {JNull, EmptyString, JStr(<<"S", "a", "l", "e">>)},
               paragraph : {JNull, EmptyString, JStr(<<"W", "e", " ", "s", "e", "l", "l">>),
                            JStr([k \in 1..(ExcerptLength + 1) |->
                                    IF k = 1 THEN "a"
                                    ELSE IF k <= ExcerptLength THEN "p" ELSE "q"])}],
        env : {[EnvOk EXCEPT !.title = t, !.h1 = h] :
                 t \in {"", "Acme"},
                 h \in {H1Found("Sale"), [st |-> "nosuch", text |-> ""]}},
        resp : {OkResponse(ReplyScenarioA), OkResponse(TextSorry), ProviderError},
        built : {{}},
        website : {<<>>}, desktop : {<<>>},
        parsed : {NoPrompts.parsed}]
  /\ ExtractIdle
  /\ FetchIdle
  /\ GuiIdle
  /\ cost_estimates = NoEstimates

\* analyze_website_screenshot builds its context.
BuildWebsiteContext ==
  /\ "website" \notin prompts.built
  /\ prompts' =
       [prompts EXCEPT
          !.built = @ \cup {"website"},
          !.website = GeminiService_website_context(
                        prompts.page.url, prompts.page.title, prompts.page.h1,
                        prompts.page.paragraph)]
  /\ UNCHANGED <<extract_vars, fetch_vars, gui_vars, cost_estimates>>

\* _parse_and_analyze: parse_url succeeds and analyze_parsed_content builds
\* its prompt from the title and the h1 of the result.
BuildDesktopPrompt ==
  /\ "desktop" \notin prompts.built
  /\ LET p == WebParser_parse_url(prompts.page.url, prompts.env)
     IN  /\ ~p.raised /\ p.result.success
         /\ prompts' =
              [prompts EXCEPT
                 !.built = @ \cup {"desktop"},
                 !.desktop = GeminiClient_parsed_content_prompt(
                               p.result.title, p.result.h1)]
  /\ UNCHANGED <<extract_vars, fetch_vars, gui_vars, cost_estimates>>

\* The backend's analyze_parsed_content is called with the fields.
BackendAnalyzeParsedContent ==
  /\ "parsed" \notin prompts.built
  /\ prompts' =
       [prompts EXCEPT
          !.built = @ \cup {"parsed"},
          !.parsed = GeminiService_analyze_parsed_content(
                       prompts.page.title, prompts.page.h1,
                       prompts.page.paragraph, prompts.resp)]
  /\ UNCHANGED <<extract_vars, fetch_vars, gui_vars, cost_estimates>>

PromptNext ==
  \/ BuildWebsiteContext
  \/ BuildDesktopPrompt
  \/ BackendAnalyzeParsedContent

SpecPrompt == PromptInit /\ [][PromptNext]_vars

(***************************************************************************)
(* Claims about the Response Extractor and the Result Normalizer           *)
(* (checked under SpecExtract)                                             *)
(***************************************************************************)
\* The reply is a fenced block holding a well-formed object.
FencedObject ==
  /\ shape.mode \in {"fence", "fence_json"}
  /\ shape.body \in {o.text : o \in WellFormedObjects}

\* The value the object of the reply denotes.
Denoted == (CHOOSE o \in WellFormedObjects : o.text = shape.body).value

\* The reply is nothing but prose or malformed JSON.
BareUnparseable ==
  /\ shape.mode = "plain"
  /\ shape.body \in Unparseable
  /\ \A k \in 1..Len(shape.pre) : shape.pre[k] \notin {"{", "}", Backtick}
  /\ \A k \in 1..Len(shape.post) : shape.post[k] \notin {"{", "}", Backtick}

\* C1: the extractor never raises and returns a mapping for every reply,
\* and the empty mapping for a reply from which no object can be parsed.
C1_ExtractorTotal ==
  /\ ~backend_parsed.raised
  /\ ~desktop_parsed.raised
  /\ backend_parsed # NotRun => backend_parsed.value.t = "dict"
  /\ desktop_parsed # NotRun => desktop_parsed.value.t = "dict"
  /\ (BareUnparseable /\ backend_parsed # NotRun) => backend_parsed.value = JDict({})
  /\ (BareUnparseable /\ desktop_parsed # NotRun) => desktop_parsed.value = JDict({})

\* C2: a well-formed object inside a fence is returned exactly, whatever
\* surrounds the fence and whatever its strings contain.
C2_FencedObjectRecovered ==
  /\ (FencedObject /\ backend_parsed # NotRun) => backend_parsed = Returned(Denoted)
  /\ (FencedObject /\ desktop_parsed # NotRun) => desktop_parsed = Returned(Denoted)

\* The schema fields with their defaults, as <<key, default>> pairs.
TextSchema ==
  {<<K.strengths, EmptyList>>, <<K.weaknesses, EmptyList>>,
   <<K.unique_offers, EmptyList>>, <<K.target_audience, EmptyList>>,
   <<K.marketing_insights, EmptyList>>, <<K.recommendations, EmptyList>>,
   <<K.summary, EmptyString>>}
ImageSchema ==
  {<<K.description, EmptyString>>, <<K.marketing_insights, EmptyList>>,
   <<K.visual_style_score, JInt(5)>>, <<K.visual_style_analysis, EmptyString>>,
   <<K.color_palette, EmptyList>>, <<K.target_audience, EmptyList>>,
   <<K.emotional_tone, EmptyString>>, <<K.recommendations, EmptyList>>}
BackendTextSchema ==
  {<<K.strengths, EmptyList>>, <<K.weaknesses, EmptyList>>,
   <<K.unique_offers, EmptyList>>, <<K.recommendations, EmptyList>>,
   <<K.summary, EmptyString>>}

\* The result holds exactly the schema's fields, once each; a field is the
\* mapping's value where the mapping has the key and the default elsewhere.
FieldWise(result, mapping, schema) ==
  /\ {m[1] : m \in result} = {f[1] : f \in schema}
  /\ Cardinality(result) = Cardinality(schema)
  /\ \A f \in schema :
       IF \E d \in mapping : d[1] = f[1]
       THEN \E d \in mapping : d[1] = f[1] /\ <<f[1], d[2]>> \in result
       ELSE <<f[1], f[2]>> \in result

\* The mapping each extractor hands to the normalizer for the reply.
DesktopExtracted == GeminiClient_parse_json(response.text)
BackendExtracted == GeminiService_parse_json_response(response.text)

TypedOrDefault(result, schema) ==
  \A f \in schema : \A m \in result : m[1] = f[1] => m[2].t = f[2].t

\* C4: in every analysis result no field is null, every list field is a
\* list and every text field is a string; a null or wrong-typed field of
\* the reply is replaced by the default.
C4_FieldsTypedOrDefault ==
  /\ text_result.success => TypedOrDefault(text_result.analysis, TextSchema)
  /\ image_result.success => TypedOrDefault(image_result.analysis, ImageSchema)
  /\ (backend_text # NotRun /\ ~backend_text.raised)
       => TypedOrDefault(backend_text.value.members, BackendTextSchema)

(***************************************************************************)
(* Claims about the Page Snapshotter (checked under SpecFetch)             *)
(***************************************************************************)
\* C6: every session a fetch acquires has been released (driver.quit() has
\* been called on it) when the fetch ends, on every exit path: success, load
\* timeout, body-wait timeout, navigation error, a failure while extracting
\* or while saving the screenshot; no session is left without its quit
\* after any sequence of fetches.
C6_SessionsReleased ==
  /\ open_sessions = 0
  /\ fetch_outcome.acquired => fetch_outcome.released

\* C6 witness: a fetch that acquired a session and ran into the load
\* timeout has ended, after an earlier fetch.
C6_Witness ==
  /\ fetch_count = 2
  /\ fetch_outcome.acquired
  /\ fetch_outcome.result = FetchFailure(LoadTimeoutMessage)
  /\ fetch_outcome.released

\* C7: no failure leaves fetch as an exception; every fetch ends with a
\* result dictionary, and a failed one with success false and a message.
C7_NoFailureEscapes ==
  /\ ~fetch_outcome.raised
  /\ (fetch_count > 0 /\ ~fetch_outcome.result.success)
       => fetch_outcome.result.error # ""

(***************************************************************************)
(* Claims about the main window (checked under SpecGui)                    *)
(***************************************************************************)
\* The signal came from a text analysis whose reply holds no JSON.
FromUnrecoverable(sig) ==
  /\ sig.kind = "text"
  /\ sig.response \in {OkResponse(r) : r \in UnrecoverableReplies}

\* Every list of the analysis is empty and so is the summary.
AllDefault(analysis) ==
  /\ {m[1] : m \in analysis} = {f[1] : f \in TextSchema}
  /\ \A m \in analysis : m[2] = IF m[1] = K.summary THEN EmptyString ELSE EmptyList

\* C5: a reply from which no JSON can be recovered makes the analysis call
\* report success with the all-default analysis, and the window shows it
\* as a result, not as an error.
C5_UnrecoverableShownAsSuccess ==
  /\ \A k \in 1..Len(signals) :
       FromUnrecoverable(signals[k])
         => /\ signals[k].signal = "finished"
            /\ signals[k].result.success
            /\ AllDefault(signals[k].result.analysis)
  /\ FromUnrecoverable(last)
       => /\ last.signal = "finished"
          /\ last.result.success
          /\ AllDefault(last.result.analysis)
          /\ shown.what = "results"
          /\ shown.request_type = "text"
          /\ AllDefault(shown.analysis)

\* C5 witness: the window has handled the completion of a text analysis
\* whose reply was an apology in prose.
C5_Witness ==
  /\ last.kind = "text"
  /\ last.response = OkResponse(TextSorry)
  /\ shown.what = "results"

\* The worker with this id is still inside run().
Running(id) == \E w \in workers : w.id = id

\* C8: every worker that has left run() emitted exactly one of the two
\* signals, exactly once; a worker still in run() has emitted none.
C8_ExactlyOneSignal ==
  \A id \in 1..started :
    IF Running(id)
    THEN emitted[id].finished = 0 /\ emitted[id].error = 0
    ELSE emitted[id].finished + emitted[id].error = 1

\* C8 witness: one worker has emitted the error signal and another the
\* success signal.
C8_Witness ==
  /\ \E id \in 1..started : ~Running(id) /\ emitted[id].error = 1
  /\ \E id \in 1..started : ~Running(id) /\ emitted[id].finished = 1

\* C9: at most one operation is in flight: between the start of a worker
\* and the handling of its completion signal no second worker is started.
C9_SingleInFlight == Cardinality(workers) + Len(signals) <= 1

\* C10: the history holds at most 10 entries, they are the most recently
\* recorded ones, newest first, and recording an entry when 10 are held
\* drops the oldest.
C10_HistoryNewestTen ==
  /\ [](/\ Len(history) <= 10
        /\ Len(history) = (IF Len(recorded) < 10 THEN Len(recorded) ELSE 10)
        /\ history = SubSeq(recorded, 1, Len(history)))
  /\ [][(Len(history) = 10 /\ Len(recorded') = Len(recorded) + 1)
          => history' = <<Head(recorded')>> \o SubSeq(history, 1, 9)]_vars

\* C10 witness: an entry has been recorded while 10 were held, and the
\* oldest of the stored ones is gone.
C10_Witness ==
  /\ Len(recorded) = 11
  /\ Len(history) = 10
  /\ history[1].timestamp = 0
  /\ history[10] = StoredItem(9)

\* The first fenced block of the reply is the one that holds the body:
\* no backtick stands before it or inside it.
FirstBlockIsBody ==
  /\ shape.mode \in {"fence", "fence_json"}
  /\ \A k \in 1..Len(shape.pre) : shape.pre[k] # Backtick
  /\ \A k \in 1..Len(shape.body) : shape.body[k] # Backtick

\* What the extractors returned, if they ran.
Extracted == {backend_parsed, desktop_parsed} \ {NotRun}

\* C24: when the reply has a fenced block, only the interior of the first
\* block is parsed: a well-formed object there is returned whatever stands
\* outside the block (an object before it, a second block after it), and an
\* interior that holds no JSON object gives the empty mapping.
C24_FenceWinsOverBraces ==
  FirstBlockIsBody =>
    \A r \in Extracted :
      r = Returned(IF shape.body \in {o.text : o \in WellFormedObjects}
                   THEN Denoted ELSE JDict({}))

\* The reply has no fenced block and its body is the only place that
\* holds braces: the brace stage works on the whole reply.
ProseAround ==
  /\ shape.mode = "plain"
  /\ shape.pre \in {<<>>, <<"x", " ">>, <<Backtick>>}
  /\ shape.post \in {<<>>, <<" ", "y">>}

\* The span from the first opening to the last closing brace of the reply
\* is not one object: two objects in a row, an object followed by a closing
\* brace, an object after an opening brace or after another object.
SpanNotAnObject ==
  /\ shape.mode = "plain"
  /\ shape.post \in {<<>>, <<" ", "y">>, <<" ", "}">>}
  /\ shape.pre \in {<<>>, <<"x", " ">>, <<"{", " ">>,
                    <<"{", "\"", "z", "\"", ":", "1", "}", " ">>}
  /\ \/ shape.body \in
          {<<"{", "\"", "a", "\"", ":", "1", "}", "{", "\"", "b", "\"", ":", "2", "}">>,
           <<"{", "\"", "a", "\"", ":", "1", "}", " ", "}">>}
     \/ /\ shape.body \in {o.text : o \in WellFormedObjects}
        /\ \/ shape.post = <<" ", "}">>
           \/ Len(shape.pre) > 0 /\ shape.pre[1] = "{"

\* C25: with no fence, one well-formed object between prose is returned
\* exactly, and a span from the first opening to the last closing brace
\* that is not one object gives the empty mapping, never a part of it.
C25_BraceSpanStrict ==
  \A r \in Extracted :
    /\ (ProseAround /\ shape.body \in {o.text : o \in WellFormedObjects})
          => r = Returned(Denoted)
    /\ SpanNotAnObject => r = Returned(JDict({}))

\* An object with prose before and after it was returned, by the backend.
C25_Witness ==
  /\ shape = [mode |-> "plain", pre |-> <<"x", " ">>, body |-> ObjScenarioA.text,
              post |-> <<" ", "y">>]
  /\ backend_parsed = Returned(ObjScenarioA.value)

\* C26: the backend and the desktop extractor agree on every reply: what
\* one of them did with the reply, returning a value or raising, is what
\* the other does with it.
C26_ExtractorsEquivalent ==
  /\ backend_parsed # NotRun =>
       LET d == GeminiClient_parse_json(response.text)
       IN  /\ d.raised = backend_parsed.raised
           /\ ~d.raised => d.value = backend_parsed.value
  /\ desktop_parsed # NotRun =>
       LET b == GeminiService_parse_json_response(response.text)
       IN  /\ b.raised = desktop_parsed.raised
           /\ ~b.raised => b.value = desktop_parsed.value

(***************************************************************************)
(* Claims about the Model Invoker (checked under SpecExtract)              *)
(***************************************************************************)
\* C11 as stated: when the endpoint call fails, the analysis operation
\* re-raises the provider's exception unchanged and returns no value in
\* its place; this is said of the backend service and of the desktop
\* client alike.
C11_ProviderErrorReraised ==
  response.raised =>
    /\ backend_text # NotRun => backend_text = Raised(response.error)
    /\ backend_image # NotRun => backend_image = Raised(response.error)
    /\ text_result = NoResult
    /\ image_result = NoResult
    /\ parsed_result = NoResult

\* C11 as amended: when the endpoint call fails, the backend service
\* re-raises the provider's exception unchanged, and the desktop client
\* catches it and returns the failure dictionary that carries its message.
C11_ReraisedOrReturnedAsFailure ==
  response.raised =>
    /\ backend_text # NotRun => backend_text = Raised(response.error)
    /\ backend_image # NotRun => backend_image = Raised(response.error)
    /\ text_result # NoResult => text_result = Failure(response.error)
    /\ image_result # NoResult => image_result = Failure(response.error)
    /\ parsed_result # NoResult
         => parsed_result \in {Failure(response.error),
                               Failure("No such file or directory")}

\* C11 witness: the backend analysis has ended with the provider's
\* exception.
C11_Witness ==
  /\ response = ProviderError
  /\ backend_text.raised
  /\ backend_text.exc = ProviderError.error

\* C12: one analysis call makes at most one call to the endpoint, also
\* after a provider failure and after a reply that cannot be parsed.
C12_AtMostOneEndpointCall ==
  /\ endpoint_calls <= 1
  /\ (text_result # NoResult \/ image_result # NoResult \/ backend_text # NotRun
        \/ backend_image # NotRun)
       => endpoint_calls = 1
  /\ (parsed_result # NoResult /\ endpoint_calls = 0)
       => parsed_result = Failure("No such file or directory")

\* C12 witness: the backend analysis has ended with the provider's failure
\* after one call.
C12_Witness ==
  /\ response.raised
  /\ backend_text.raised
  /\ endpoint_calls = 1

(***************************************************************************)
(* Claims about the visual style score (checked under SpecExtract)         *)
(***************************************************************************)
\* The score of a desktop result, and of the backend's keyword arguments.
Score(analysis) == (CHOOSE m \in analysis : m[1] = K.visual_style_score)[2]

\* C13: in every image analysis result the score is an integer in 0..10;
\* a score that is missing or out of range has been replaced by 5.
C13_ScoreInRange ==
  /\ image_result.success
       => Score(image_result.analysis).t = "int"
          /\ Score(image_result.analysis).n \in 0..10
  /\ parsed_result.success
       => Score(parsed_result.analysis).t = "int"
          /\ Score(parsed_result.analysis).n \in 0..10
  /\ (backend_image # NotRun /\ ~backend_image.raised)
       => Score(backend_image.value.members).t = "int"
          /\ Score(backend_image.value.members).n \in 0..10

\* What C14 expects for the score, given the extracted mapping: the value
\* the reply supplies, whatever it is, and 5 when the reply has none.
SuppliedScore(mapping) ==
  IF \E d \in mapping : d[1] = K.visual_style_score
  THEN Score(mapping)
  ELSE JInt(5)

\* C14: a score the reply supplies reaches the result unchanged, also
\* outside 0..10; only a missing score becomes 5.
C14_ScorePassedThrough ==
  /\ image_result.success
       => Score(image_result.analysis) = SuppliedScore(DesktopExtracted.value.members)
  /\ parsed_result.success
       => Score(parsed_result.analysis) = SuppliedScore(DesktopExtracted.value.members)
  /\ (backend_image # NotRun /\ ~backend_image.raised)
       => Score(backend_image.value.members)
            = SuppliedScore(BackendExtracted.value.members)

\* C14 witness: a reply with the score 15 has been normalized and the
\* result holds 15.
C14_Witness ==
  /\ shape.mode = "fence_json"
  /\ <<K.visual_style_score, JInt(15)>> \in DesktopExtracted.value.members
  /\ image_result.success
  /\ Score(image_result.analysis) = JInt(15)

(***************************************************************************)
(* Claims about one fetch (checked under SpecSnapshot)                     *)
(***************************************************************************)
\* The page has loaded: the session started, navigation and the wait for
\* the body came back, and no later step of the fetch failed for a reason
\* of its own.
PageLoaded(env) ==
  /\ env.chrome = "ok" /\ env.get = "ok" /\ env.wait = "ok"
  /\ env.h1.st # "error" /\ env.screenshot # "error" /\ env.quit = "ok"

\* C16: a page that loads but has no h1, or an empty title, makes the fetch
\* succeed: the heading is the sentinel when there is no h1, the title is
\* the default when the page title is empty, and the result is no failure.
C16_AbsenceIsDegradedSuccess ==
  (fetch_count > 0 /\ PageLoaded(fetch_args.env))
    => /\ ~fetch_outcome.raised
       /\ fetch_outcome.result.success
       /\ fetch_outcome.result.h1
            = (IF fetch_args.env.h1.st = "nosuch" THEN "H1 not found"
               ELSE fetch_args.env.h1.text)
       /\ fetch_outcome.result.title
            = (IF fetch_args.env.title = "" THEN "No title" ELSE fetch_args.env.title)

\* C16 witness: a page without an h1 and with an empty title has been
\* fetched.
C16_Witness ==
  /\ fetch_count = 1
  /\ fetch_args.env.h1.st = "nosuch"
  /\ fetch_args.env.title = ""
  /\ fetch_outcome.result.success
  /\ fetch_outcome.result.h1 = "H1 not found"
  /\ fetch_outcome.result.title = "No title"

\* The url carries a scheme: letters, then a colon and two slashes.
HasScheme(url) ==
  \E i \in 2..Len(url) :
    /\ StartsWithAt(url, i, <<":", "/", "/">>)
    /\ \A k \in 1..(i - 1) : url[k] \notin {":", "/", "."}

\* C17: the fetch navigates to "https://" + url exactly when the url has no
\* scheme and to the url itself when it carries one; the url of the
\* snapshot is the one navigated to.
C17_SchemePrefixedWhenMissing ==
  (fetch_count > 0 /\ fetch_outcome.acquired)
    => /\ fetch_outcome.navigated
            = (IF HasScheme(fetch_args.url) THEN fetch_args.url
               ELSE SchemeHttps \o fetch_args.url)
       /\ fetch_outcome.result.success
            => fetch_outcome.result.url = fetch_outcome.navigated

(***************************************************************************)
(* Claims about requests of the main window (checked under SpecGui)        *)
(***************************************************************************)
\* The file the fetch of a parse worker writes its screenshot to.
ScreenshotOf(w) == ScreenshotPath(WithScheme(w.url))

\* C15: any two fetches in flight at the same time write their screenshots
\* to different paths.
C15_ScreenshotPathsDistinct ==
  \A w1, w2 \in workers :
    (w1 # w2 /\ w1.kind = "parse" /\ w2.kind = "parse")
      => ScreenshotOf(w1) # ScreenshotOf(w2)

ParseSignals ==
  {s \in {signals[i] : i \in 1..Len(signals)} \cup {last} : s.kind = "parse"}

\* C23: on the URL path the model endpoint is called only after parse_url
\* returned a successful snapshot; when parse_url returns a failure, the
\* worker's result is that failure and the endpoint is not called at all.
C23_ModelOnlyAfterSnapshot ==
  \A s \in ParseSignals :
    /\ s.calls > 0 => s.fetch.success
    /\ (s.signal = "finished" /\ ~s.fetch.success) =>
         /\ s.calls = 0
         /\ s.result = Failure(s.fetch.error)

\* A URL request whose fetch returned a failure has been handled: its
\* result is that failure and the endpoint was not called.
C23_Witness ==
  /\ last.kind = "parse" /\ last.signal = "finished"
  /\ ~last.fetch.success /\ last.calls = 0
  /\ last.result = Failure(last.fetch.error)

\* What the window shows for a handled completion signal when it shows
\* what the signal carries: the analysis of a success, else the message of
\* the failure (the worker's exception, or the error of the result).
OutcomeOf(sig) ==
  IF sig.signal = "error" THEN ErrorBox(sig.error)
  ELSE IF sig.result.success /\ sig.result.analysis # {}
       THEN Results(sig.result.analysis, sig.kind)
  ELSE ErrorBox(IF sig.result.success THEN "unknown error" ELSE sig.result.error)

\* C22: every request whose completion the window has handled ended in one
\* visible outcome: its analysis is displayed, or an error box with the
\* message of its failure.
C22_OneVisibleOutcome == last # NoSignal => shown = OutcomeOf(last)

\* This step handles the completion of a request and displays its
\* successful analysis, and the history gains one entry for it at the
\* front, tagged with the type of the request, and is stored.
SuccessRecorded ==
  /\ signals # <<>>
  /\ last' = Head(signals)
  /\ last'.signal = "finished"
  /\ last'.result.success
  /\ shown' = Results(last'.result.analysis, last'.kind)
  /\ history' = Keep(<<[timestamp |-> now, request_type |-> last'.kind,
                        analysis |-> last'.result.analysis]>> \o history)
  /\ history_file' = [exists |-> TRUE, items |-> history']

\* This step empties the history and removes its file, and starts, ends or
\* displays no request.
HistoryCleared ==
  /\ history' = <<>>
  /\ history_file' = [exists |-> FALSE, items |-> <<>>]
  /\ UNCHANGED <<workers, signals, started, shown, last>>

\* C27: the history and its stored file change only in a step that
\* displays a successful analysis (one entry added for that request) or in
\* a confirmed clear; every other step (a refused input, a failed request,
\* a declined clear) leaves both as they are.
C27_HistoryFrame ==
  [][(history' # history \/ history_file' # history_file)
       => (SuccessRecorded \/ HistoryCleared)]_vars

\* The last request handled has failed and its error is displayed, while
\* the newest entry of the history is still the one of an earlier success
\* of this run.
C27_Witness ==
  /\ last # NoSignal
  /\ shown.what = "error"
  /\ recorded # <<>>
  /\ history # <<>>
  /\ history[1] = recorded[1]
  /\ history_file = [exists |-> TRUE, items |-> history]

\* C28: the loading indicator is visible exactly while a request is in
\* flight, that is while a worker runs or its completion signal waits to
\* be handled.
C28_LoadingWhileInFlight ==
  loading_visible <=> (workers # {} \/ signals # <<>>)

(***************************************************************************)
(* Claims about the cost estimator (checked under SpecCost)                *)
(***************************************************************************)
\* C19: the estimate at zero tokens is zero in every token count and every
\* cost, and raising a token count lowers none of the reported input,
\* output and total costs.
C19_ZeroAndMonotone ==
  cost_estimates.done =>
    LET a == cost_estimates.args
        lo == cost_estimates.lo
        hi == cost_estimates.hi
    IN  /\ (a.lo.input_tokens = 0 /\ a.lo.output_tokens = 0) =>
              /\ lo.input_tokens = 0
              /\ lo.output_tokens = 0
              /\ lo.total_tokens = 0
              /\ lo.input_cost_usd = 0
              /\ lo.output_cost_usd = 0
              /\ lo.total_cost_usd = 0
        /\ lo.input_cost_usd <= hi.input_cost_usd
        /\ lo.output_cost_usd <= hi.output_cost_usd
        /\ lo.total_cost_usd <= hi.total_cost_usd

\* The estimate at zero tokens without an image, and the estimate at counts
\* whose input cost lies half way and was rounded up.
C19_Witness ==
  /\ cost_estimates.done
  /\ ~cost_estimates.args.has_image
  /\ cost_estimates.args.lo = [input_tokens |-> 0, output_tokens |-> 0]
  /\ cost_estimates.lo.total_cost_usd = 0
  /\ cost_estimates.args.hi = [input_tokens |-> 5, output_tokens |-> 2]
  /\ cost_estimates.hi.input_cost_usd = 10
  /\ cost_estimates.hi.total_cost_usd = 10

\* C20: the estimate of a call with image content is made at the rates of
\* the vision family and names the vision model, the estimate of a call
\* without is made at the rates of the text family and names the text model.
C20_RateAndModelByFlag ==
  cost_estimates.done =>
    LET a == cost_estimates.args
    IN  /\ cost_estimates.lo.rates = (IF a.has_image THEN "VISION_COST" ELSE "TEXT_COST")
        /\ cost_estimates.lo.model = (IF a.has_image THEN a.vision_model ELSE a.text_model)

\* C29: in every estimate the reported total cost is the sum of the
\* reported input cost and the reported output cost, and total_tokens is the
\* sum of input_tokens and output_tokens.
C29_TotalsAreSums ==
  cost_estimates.done =>
    \A e \in {cost_estimates.lo, cost_estimates.hi} :
      /\ e.total_tokens = e.input_tokens + e.output_tokens
      /\ e.total_cost_usd = e.input_cost_usd + e.output_cost_usd

(***************************************************************************)
(* Claims about the prompt builders (checked under SpecPrompt)             *)
(***************************************************************************)
\* An Optional[str] field of the page is present: a string that is not empty.
Present(field) == field.t = "str" /\ field.s # <<>>

\* The lines of a context that carry the given label.
LinesOf(context, label) == {k \in 1..Len(context) : context[k].label = label}

\* The backend's context of a page: the url always, a line for each of
\* title, heading and excerpt exactly when the field is present, the
\* excerpt cut to its first ExcerptLength characters, no line with an
\* empty value.
WebsiteContextAsClaimed ==
  LET c == prompts.website
      page == prompts.page
  IN  /\ \E k \in LinesOf(c, "URL") : c[k].value = page.url
      /\ LinesOf(c, "Title") # {} <=> Present(page.title)
      /\ LinesOf(c, "H1") # {} <=> Present(page.h1)
      /\ LinesOf(c, "Text") # {} <=> Present(page.paragraph)
      /\ \A k \in LinesOf(c, "Title") : c[k].value = page.title.s
      /\ \A k \in LinesOf(c, "H1") : c[k].value = page.h1.s
      /\ \A k \in LinesOf(c, "Text") :
            /\ Len(c[k].value) <= ExcerptLength
            /\ Len(c[k].value) = Len(page.paragraph.s) \/ Len(c[k].value) = ExcerptLength
            /\ \A j \in 1..Len(c[k].value) : c[k].value[j] = page.paragraph.s[j]
      /\ \A k \in 1..Len(c) : c[k].value # <<>>

\* The same of the desktop's prompt, for the page the rendering engine
\* shows: a title is absent when driver.title is empty, a heading when the
\* page has no h1.
DesktopPromptAsClaimed ==
  LET d == prompts.desktop
  IN  /\ LinesOf(d, "URL") # {}
      /\ LinesOf(d, "Title") # {} <=> prompts.env.title # ""
      /\ LinesOf(d, "H1") # {} <=> prompts.env.h1.st = "found"
      /\ \A k \in 1..Len(d) : d[k].value \notin {"", "No title", "H1 not found"}

\* C21: the context of a page analysis holds the url always and a line for
\* each of title, heading and body excerpt exactly when the field is
\* present, the excerpt cut to its first N characters, and no label with an
\* empty or placeholder value.
C21_ContextHoldsPresentFields ==
  /\ "website" \in prompts.built => WebsiteContextAsClaimed
  /\ "desktop" \in prompts.built => DesktopPromptAsClaimed

\* C30: the backend's analysis of parsed content calls the endpoint not at
\* all when title, heading and paragraph are all absent or empty, and then
\* returns an analysis with empty lists and the fixed summary; otherwise it
\* makes one call, whose input holds the present fields and no other.
C30_NoCallWithoutContent ==
  "parsed" \in prompts.built =>
    LET r == prompts.parsed
        page == prompts.page
    IN  IF ~Present(page.title) /\ ~Present(page.h1) /\ ~Present(page.paragraph)
        THEN /\ r.calls = 0
             /\ r.outcome =
                  Returned(JDict({<<K.strengths, EmptyList>>, <<K.weaknesses, EmptyList>>,
                                  <<K.unique_offers, EmptyList>>,
                                  <<K.recommendations, EmptyList>>,
                                  <<K.summary,
                                    JStr(<<"n", "o", " ", "c", "o", "n", "t", "e", "n", "t">>)>>}))
        ELSE /\ r.calls = 1
             /\ LinesOf(r.input, "Title") # {} <=> Present(page.title)
             /\ LinesOf(r.input, "H1") # {} <=> Present(page.h1)
             /\ LinesOf(r.input, "Paragraph") # {} <=> Present(page.paragraph)
             /\ \A k \in LinesOf(r.input, "Title") : r.input[k].value = page.title.s
             /\ \A k \in LinesOf(r.input, "H1") : r.input[k].value = page.h1.s
             /\ \A k \in LinesOf(r.input, "Paragraph") :
                   r.input[k].value = page.paragraph.s
             /\ Len(r.input) = Cardinality({f \in {"title", "h1", "paragraph"} :
                                               Present(page[f])})

\* The function was called for a page with an empty title, no heading and
\* no paragraph, and made no call.
C30_Witness ==
  /\ "parsed" \in prompts.built
  /\ prompts.page.title = EmptyString
  /\ prompts.page.h1 = JNull
  /\ prompts.page.paragraph = JNull
  /\ prompts.parsed.calls = 0


=============================================================================
